---- MODULE Spec2Model ----
(***************************************************************************)
(* Label log and subscription fan-out of the ATproto labeler               *)
(* (package server): the writer path AddLabel/writeLabel with its          *)
(* READ COMMITTED transaction and retry loop, the wake-up goroutine        *)
(* wakeUpSubs and the per-connection state machine streamLabels.           *)
(***************************************************************************)
EXTENDS Integers, Sequences, FiniteSets, TLC

\* ------------------------------------------------------------------ bounds
Writers == {"w1", "w2"}
Subs == {"s1"}
\* rows the log grows to: no AddLabel call starts beyond it
MaxLog == 3
\* highest cursor value a client connects with
MaxCursor == 2
MaxLen == 3
MaxImport == 3
ImportBatchSize == 2
\* width of int64 and uint64 (64 in the code, scaled down): the highest
\* int64 is 2^(IntBits - 1) - 1
IntBits == 17
\* numbers handed to encodeKey lie this close to 1, to 256 and to the highest
MaxKey == 3
\* length of the keys handed to decodeKey
MaxKeyLen == 4
\* rows per FindInBatches query (100 in subscribe.go, scaled down)
BatchSize == 2

\* ------------------------------------------------------- program constants
\* attempts of the retry loop in writeLabel
MaxAttempts == 5

\* the server's configured identity (s.did)
ServerDid == "did:example"

\* ---------------------------------------------------------------- inputs
Srcs == {"", ServerDid}
Uris == {"did:foo"}
Vals == {"a"}
Cids == {"", "x"}
Exps == {"", "T"}

\* comatproto.LabelDefs_Label as passed to AddLabel (absent pointer = "", FALSE)
Labels == [src : Srcs, uri : Uris, val : Vals, cid : Cids, exp : Exps, neg : BOOLEAN]

\* the cursor query parameter; -1 stands for an absent parameter
Cursors == (-1) .. MaxCursor

VARIABLES
    log,            \* committed rows of table "log"
    commitOrder,    \* seq numbers in the order their transactions committed
    wpc,            \* writer: position in AddLabel/writeLabel
    newLabel,       \* writer: the Entry handed to writeLabel (Seq filled by Create)
    i,              \* writer: retry loop counter
    lastKey,        \* writer: highest seq read at the start of the transaction
    updated,        \* writer: the updated flag
    pending,        \* writer: rows inserted by the open transaction
    ret,            \* writer: result of the last AddLabel call
    overlapped,     \* writer: another AddLabel call ran during the current one
    wakeGoroutines, \* number of started wakeUpSubs goroutines that have not run
    wakeChans,      \* registered wake channels (one per subscription)
    wakeCh,         \* subscriber: tokens in its wake channel (capacity 1)
    spc,            \* subscriber: position in streamLabels
    cursor,         \* subscriber: the cursor argument
    subLastKey,     \* subscriber: the lastKey local
    scanLast,       \* subscriber: primary key reached by FindInBatches
    frames,         \* subscriber: frames written to the connection
    seenAtInit,     \* subscriber: seqs in the log at the read that decided validation
    did,            \* s.did, the server's configured identity
    allowedLabels,  \* s.allowedLabels, as the set of its keys
    rejected,       \* the last AddLabel call refused before writeLabel: <<error, label>>
    impPc,          \* ImportEntries: "idle" or "run" (holding s.mu)
    impLeft,        \* ImportEntries: the entries of the batches not yet created
    impRet,         \* ImportEntries: result of the last call
    dedupeArg,      \* argument of a call of dedupeAndNegateEntries
    dedupeRes,      \* its result
    dedupeTwice,    \* the result of dedupeAndNegateEntries on that result
    dedupePc,       \* number of calls of dedupeAndNegateEntries made
    lastSeq,        \* last value handed out by the sequence of column seq
    cancelled,      \* subscriber: the context of the connection is cancelled
    ioError,        \* subscriber: a write to the connection has returned an error
    qReq,           \* Query handler: the request (uriPatterns, sources)
    qStatus,        \* Query handler: HTTP status of the response (0: none yet)
    qReads,         \* Query handler: number of reads of the store it has made
    oldDb,          \* migration: the old store, key |-> label or empty body
    migRet,         \* migration: result of migrateOldData
    qLabels,        \* Query handler: the labels of the response
    labelName,      \* LabelEntries: the labelName argument of the last call
    labelEntries,   \* LabelEntries: its result
    apiPc,          \* admin handler: "idle" or "called" (AddLabel was called, no response yet)
    httpStatus,     \* admin handler: status of its last response (0: none yet)
    oldLabels,      \* old server, s.labels: the entries of the nested map
    bucket,         \* old server: the records of the bucket, by key
    oldRet,         \* old server: what AddLabel returned last
    keyArg,         \* key codec: the numbers handed to encodeKey
    keyEnc,         \* key codec: their keys
    bytesArg,       \* key codec: the key handed to decodeKey
    bytesDec,       \* key codec: what decodeKey returned
    formCursor      \* Subscribe handler: the cursor parameter as parsed (-1: absent)

wvars == <<wpc, newLabel, i, lastKey, updated, pending, ret, overlapped>>
svars == <<wakeChans, wakeCh, spc, cursor, subLastKey, scanLast, frames, seenAtInit>>
avars == <<did, allowedLabels, rejected, impPc, impLeft, impRet, dedupeArg, dedupeRes, dedupeTwice,
          dedupePc, lastSeq, cancelled, ioError, qReq, qStatus, qReads, oldDb, migRet,
          qLabels, labelName, labelEntries,
          apiPc, httpStatus,
          oldLabels, bucket, oldRet,
          keyArg, keyEnc, bytesArg, bytesDec,
          formCursor>>
a2vars == <<did, allowedLabels, rejected, impPc, impLeft, impRet, dedupeArg, dedupeRes,
           dedupeTwice, dedupePc>>
rcvars == <<lastSeq>>
connvars == <<cancelled, ioError>>
qvars == <<qReq, qStatus, qReads>>
mvars == <<oldDb, migRet>>
fvars == <<qLabels, labelName, labelEntries>>
hvars == <<apiPc, httpStatus>>
lvars == <<oldLabels, bucket, oldRet>>
kvars == <<keyArg, keyEnc, bytesArg, bytesDec>>
uvars == <<formCursor>>
yvars == <<kvars, uvars>>
xvars == <<lvars, yvars>>
evars == <<fvars, hvars, xvars>>
cvars == <<rcvars, connvars, qvars, mvars, evars>>
vars == <<log, commitOrder, wvars, wakeGoroutines, svars, avars>>

\* ---------------------------------------------------------------- helpers
Max(S) == IF S = {} THEN 0 ELSE CHOOSE x \in S : \A y \in S : y <= x

Min(S) == IF S = {} THEN 0 ELSE CHOOSE x \in S : \A y \in S : x <= y

Seqs(rows) == {e.seq : e \in rows}

Range(f) == {f[x] : x \in DOMAIN f}

\* Select("seq").Order("seq desc").Limit(1).Pluck: 0 when there is no row
PluckLastKey(rows) == Max(Seqs(rows))

\* SameIdentity without the cid column
SameIdentityIgnoringCid(e, l) ==
    e.src = l.src /\ e.val = l.val /\ e.uri = l.uri

\* the WHERE clause of writeLabel: src, val, uri and cid are equal
SameIdentity(e, l) ==
    e.src = l.src /\ e.val = l.val /\ e.uri = l.uri /\ e.cid = l.cid

\* Entry.FromLabel
FromLabel(seq, other) ==
    [seq |-> seq, src |-> other.src, uri |-> other.uri, val |-> other.val,
     cid |-> other.cid, exp |-> other.exp, neg |-> other.neg]

NoEntry == FromLabel(0, [src |-> "", uri |-> "", val |-> "", cid |-> "", exp |-> "", neg |-> FALSE])

\* IsEmpty
IsEmpty(rows) == Cardinality(rows) = 0

\* no Query request received
NoRequest == [uriPatterns |-> <<>>, sources |-> <<>>]

\* math.MaxInt64, at the width of the model
MaxInt64 == 2 ^ (IntBits - 1) - 1

\* ------------------------------------------------------------------- Init
\* the state of a server that has just been constructed, apart from the
\* contents of its store
InitServer ==
    /\ commitOrder = <<>>
    /\ wpc = [w \in Writers |-> "idle"]
    /\ newLabel = [w \in Writers |-> NoEntry]
    /\ i = [w \in Writers |-> 0]
    /\ lastKey = [w \in Writers |-> 0]
    /\ updated = [w \in Writers |-> FALSE]
    /\ pending = [w \in Writers |-> {}]
    /\ ret = [w \in Writers |-> [changed |-> FALSE, err |-> FALSE]]
    /\ overlapped = [w \in Writers |-> FALSE]
    /\ wakeGoroutines = 0
    /\ wakeChans = {}
    /\ wakeCh = [s \in Subs |-> 0]
    /\ spc = [s \in Subs |-> "idle"]
    /\ cursor = [s \in Subs |-> -1]
    /\ subLastKey = [s \in Subs |-> 0]
    /\ scanLast = [s \in Subs |-> 0]
    /\ frames = [s \in Subs |-> <<>>]
    /\ seenAtInit = [s \in Subs |-> {}]
    /\ allowedLabels = {}
    /\ rejected = <<>>
    /\ impPc = "idle"
    /\ impLeft = <<>>
    /\ impRet = "none"
    /\ dedupeRes = <<>>
    /\ dedupeTwice = <<>>
    /\ dedupePc = 0
    /\ lastSeq = 0
    /\ cancelled = [s \in Subs |-> FALSE]
    /\ ioError = [s \in Subs |-> FALSE]
    /\ qStatus = 0
    /\ qReads = 0
    /\ migRet = "none"
    /\ qLabels = <<>>
    /\ labelName = ""
    /\ labelEntries = <<>>
    /\ apiPc = [w \in Writers |-> "idle"]
    /\ httpStatus = [w \in Writers |-> 0]
    /\ oldLabels = {}
    /\ bucket = <<>>
    /\ oldRet = [changed |-> FALSE, err |-> FALSE]
    /\ keyEnc = <<>>
    /\ bytesDec = <<>>
    /\ formCursor = [s \in Subs |-> -1]

\* a server that has just been constructed on an empty store
InitState ==
    /\ log = {}
    /\ InitServer

\* a server with the configured identity, no call of the collapse pending
Init ==
    /\ InitState
    /\ keyArg = <<>>
    /\ bytesArg = <<>>
    /\ did = ServerDid
    /\ dedupeArg = <<>>
    /\ qReq = NoRequest
    /\ oldDb = <<>>

\* ----------------------------------------------------------------- writer
InCall(w) == wpc[w] # "idle"

\* the allow-list test of AddLabel without the list
AllowedAlways(allowed, val) == TRUE

\* len(s.allowedLabels) > 0 && !s.allowedLabels[label.Val], negated
Allowed(allowed, val) == allowed = {} \/ val \in allowed

\* AddLabel returns (false, error) before writeLabel is called
Reject(w, error, label) ==
    /\ ret' = [ret EXCEPT ![w] = [changed |-> FALSE, err |-> TRUE]]
    /\ rejected' = <<error, label>>
    /\ UNCHANGED <<wpc, newLabel, i, overlapped>>

\* AddLabel up to the call of writeLabel: the allow-list test under s.mu,
\* src defaults to the server's identity, the signature is dropped, the
\* Entry is built with Seq 0.
AddLabelCall(w, label) ==
    /\ wpc[w] = "idle"
    /\ impPc = "idle"
    /\ Cardinality(log) + Cardinality({u \in Writers : InCall(u)}) < MaxLog
    /\ IF ~ Allowed(allowedLabels, label.val)
       THEN Reject(w, "not allowed", label)
       ELSE LET l == IF label.src = "" THEN [label EXCEPT !.src = did] ELSE label
            IN  IF l.src = ""
                THEN Reject(w, "missing src", label)
                ELSE /\ newLabel' = [newLabel EXCEPT ![w] = FromLabel(0, l)]
                     /\ wpc' = [wpc EXCEPT ![w] = "begin"]
                     /\ i' = [i EXCEPT ![w] = 0]
                     /\ overlapped' = [v \in Writers |->
                            IF v = w THEN \E u \in Writers \ {w} : InCall(u)
                            ELSE InCall(v)]
                     /\ UNCHANGED <<ret, rejected>>
    /\ UNCHANGED <<log, commitOrder, lastKey, updated, pending, wakeGoroutines, svars,
                   did, allowedLabels, impPc, impLeft, impRet,
                   dedupeArg, dedupeRes, dedupeTwice, dedupePc, rcvars, connvars, qvars,
                   mvars>>

\* a call of AddLabel by a client of the server
AddLabel(w, label) ==
    /\ AddLabelCall(w, label)
    /\ UNCHANGED evars

\* the latest row with seq <= lastKey, whatever its identity
FindExistingAnyIdentity(rows, e, last) ==
    {l \in rows : l.seq <= last /\ l.seq = Max({x.seq : x \in {y \in rows : y.seq <= last}})}

\* the latest row with newLabel's identity and seq <= lastKey (Limit(1)), as a set
FindExisting(rows, e, last) ==
    LET m == {l \in rows : SameIdentity(l, e) /\ l.seq <= last}
    IN  {l \in m : l.seq = Max(Seqs(m))}

\* NoOp without the comparison of Exp
NoOpIgnoringExp(entries, e) ==
    IF entries = {} THEN e.neg
    ELSE LET l == CHOOSE x \in entries : TRUE
         IN  ~ (l.neg # e.neg)

\* the noOp decision of writeLabel
NoOp(entries, e) ==
    IF entries = {} THEN e.neg
    ELSE LET l == CHOOSE x \in entries : TRUE
         IN  ~ (l.neg # e.neg \/ l.exp # e.exp)

\* rows with newLabel's identity committed with lastKey < seq < newLabel.Seq
NewEntries(rows, e, last) ==
    Cardinality({l \in rows : SameIdentity(l, e) /\ l.seq > last /\ l.seq < e.seq})

\* NextSeq leaving a hole after the highest seq
NextSeqSkipping(rows) == Max(Seqs(rows)) + 2

\* the seq the table gives a row inserted with Seq 0 (INTEGER PRIMARY KEY)
NextSeq(rows) == Max(Seqs(rows)) + 1

\* KeyTaken of a table without the primary key
KeyTakenNever(rows, seq) == FALSE

\* the primary key rejects a row whose seq is taken
KeyTaken(rows, seq) == seq \in Seqs(rows)

\* AddLabel returns; the locals of the call are gone
Return(w, changed, err) ==
    /\ wpc' = [wpc EXCEPT ![w] = "idle"]
    /\ ret' = [ret EXCEPT ![w] = [changed |-> changed, err |-> err]]
    /\ newLabel' = [newLabel EXCEPT ![w] = NoEntry]
    /\ i' = [i EXCEPT ![w] = 0]
    /\ lastKey' = [lastKey EXCEPT ![w] = 0]
    /\ updated' = [updated EXCEPT ![w] = FALSE]
    /\ pending' = [pending EXCEPT ![w] = {}]
    /\ overlapped' = [overlapped EXCEPT ![w] = FALSE]

\* a retry loop without an end
LastAttemptNever(n) == FALSE

\* the loop for i := 0; i < 5; i++ is in its last iteration
LastAttempt(n) == n + 1 >= MaxAttempts

\* a transaction returned an error: roll back, log it, next loop iteration
\* or, after the last attempt, return (false, error)
TxFailed(w) ==
    IF ~ LastAttempt(i[w])
    THEN /\ pending' = [pending EXCEPT ![w] = {}]
         /\ i' = [i EXCEPT ![w] = @ + 1]
         /\ wpc' = [wpc EXCEPT ![w] = "begin"]
         /\ UNCHANGED <<ret, newLabel, lastKey, updated, overlapped>>
    ELSE Return(w, FALSE, TRUE)

\* start of the transaction: updated = false, lastKey = highest seq
TxPluckLastKey(w) ==
    /\ wpc[w] = "begin"
    /\ updated' = [updated EXCEPT ![w] = FALSE]
    /\ lastKey' = [lastKey EXCEPT ![w] = PluckLastKey(log)]
    /\ wpc' = [wpc EXCEPT ![w] = "find"]
    /\ UNCHANGED <<log, commitOrder, newLabel, i, pending, ret, overlapped,
                   wakeGoroutines, svars, avars>>

\* query of the latest matching row and the noOp decision; a no-op commits
\* an empty transaction and AddLabel returns (false, nil)
TxFind(w) ==
    /\ wpc[w] = "find"
    /\ LET entries == FindExisting(log, newLabel[w], lastKey[w])
       IN  IF NoOp(entries, newLabel[w])
           THEN Return(w, FALSE, FALSE)
           ELSE /\ wpc' = [wpc EXCEPT ![w] = "create"]
                /\ updated' = [updated EXCEPT ![w] = TRUE]
                /\ UNCHANGED <<ret, newLabel, i, lastKey, pending, overlapped>>
    /\ UNCHANGED <<log, commitOrder, wakeGoroutines, svars, avars>>

\* tx.Create(&newLabel): one writer inserts at a time; a zero Seq is assigned
\* by the table and written back into newLabel, a non-zero Seq (left by a
\* rolled back attempt) is inserted as given and fails on a taken key
TxCreate(w) ==
    /\ wpc[w] = "create"
    /\ \A u \in Writers \ {w} : pending[u] = {}
    /\ IF newLabel[w].seq = 0
       THEN LET row == [newLabel[w] EXCEPT !.seq = NextSeq(log)]
            IN  /\ newLabel' = [newLabel EXCEPT ![w] = row]
                /\ pending' = [pending EXCEPT ![w] = {row}]
                /\ wpc' = [wpc EXCEPT ![w] = "count"]
                /\ UNCHANGED <<i, ret, lastKey, updated, overlapped>>
       ELSE IF KeyTaken(log, newLabel[w].seq)
            THEN TxFailed(w)
            ELSE /\ pending' = [pending EXCEPT ![w] = {newLabel[w]}]
                 /\ wpc' = [wpc EXCEPT ![w] = "count"]
                 /\ UNCHANGED <<newLabel, i, ret, lastKey, updated, overlapped>>
    /\ UNCHANGED <<log, commitOrder, wakeGoroutines, svars, avars>>

\* a rollback that leaves the rows of the transaction in the table
RollbackKeeping(rows, pend) == rows \cup pend

\* db.Transaction rolls back when the function returns an error: the rows
\* inserted by the transaction are discarded
Rollback(rows, pend) == rows

\* the conflict check and the end of the transaction: roll back when a row
\* of the same identity was committed in between, else commit; after a
\* commit AddLabel starts the wakeUpSubs goroutine and returns (true, nil)
TxCountAndCommit(w) ==
    /\ wpc[w] = "count"
    /\ IF NewEntries(log, newLabel[w], lastKey[w]) > 0
       THEN /\ TxFailed(w)
            /\ log' = Rollback(log, pending[w])
            /\ UNCHANGED <<commitOrder, wakeGoroutines>>
       ELSE /\ log' = log \cup pending[w]
            /\ commitOrder' = Append(commitOrder, newLabel[w].seq)
            /\ Return(w, updated[w], FALSE)
            /\ wakeGoroutines' = wakeGoroutines + 1
    /\ UNCHANGED <<svars, avars>>

\* ------------------------------------------------------------- wakeUpSubs
\* a send that queues behind a pending wake
SendQueued(tokens) == tokens + 1

\* select { case ch <- struct{}{}: default: } on a channel of capacity 1:
\* the send is dropped when the channel holds a wake
TrySend(tokens) == IF tokens < 1 THEN tokens + 1 ELSE tokens

\* under s.mu, a non-blocking send on every registered channel (capacity 1)
wakeUpSubs ==
    /\ wakeGoroutines > 0
    /\ wakeGoroutines' = wakeGoroutines - 1
    /\ wakeCh' = [s \in Subs |-> IF s \in wakeChans THEN TrySend(wakeCh[s]) ELSE wakeCh[s]]
    /\ UNCHANGED <<log, commitOrder, wvars, avars, wakeChans, spc, cursor, subLastKey,
                   scanLast, frames, seenAtInit>>

\* ------------------------------------------------------------ subscriber
\* header {op:1, t:"#labels"} followed by {seq, labels:[entry]}
LabelFrame(seq) == [op |-> 1, seq |-> seq]

\* the fixed message {op:-1}{error:"FutureCursor"}
FutureCursorFrame == [op |-> -1, seq |-> 0]

\* rows in ascending seq order
SortBySeq(rows) ==
    [k \in 1 .. Cardinality(rows) |->
        CHOOSE e \in rows : Cardinality({x \in rows : x.seq < e.seq}) = k - 1]

\* the first n elements of a sequence
Limit(q, n) == SubSeq(q, 1, IF Len(q) < n THEN Len(q) ELSE n)

\* Batch with Where("seq >= ?", from)
BatchInclusive(rows, from, after) ==
    Limit(SortBySeq({e \in rows : e.seq >= from /\ e.seq > after}), BatchSize)

\* one query of FindInBatches: Where("seq > ?", from), primary key above the
\* last row of the previous batch, Order("seq asc"), Limit(batch size)
Batch(rows, from, after) ==
    Limit(SortBySeq({e \in rows : e.seq > from /\ e.seq > after}), BatchSize)

\* the bound of the catch-up scan (subscribe.go:112)
CatchUpFrom(s) == cursor[s]

\* WakeFrom skipping the row after the last one sent
WakeFromSkipping(s) == subLastKey[s] + 1

\* the bound of the scan after a wake-up (subscribe.go:157)
WakeFrom(s) == cursor[s]

\* the callback of FindInBatches: sendLabel for every row, lastKey = e.Seq
SendBatch(s, batch) ==
    /\ frames' = [frames EXCEPT ![s] = @ \o [k \in 1 .. Len(batch) |-> LabelFrame(batch[k].seq)]]
    /\ subLastKey' = [subLastKey EXCEPT ![s] =
                        IF Len(batch) = 0 THEN @ ELSE batch[Len(batch)].seq]

\* a return that leaves the wake channel in s.wakeChans
UnregisterNever(s) == wakeChans' = wakeChans

\* the deferred function: the wake channel is removed from s.wakeChans
Unregister(s) == wakeChans' = wakeChans \ {s}

\* the start of streamLabels with the cursor of the handler: the wake
\* channel is registered
streamLabelsStart(s, c) ==
    /\ spc[s] = "idle"
    /\ cursor' = [cursor EXCEPT ![s] = c]
    /\ wakeChans' = wakeChans \cup {s}
    /\ spc' = [spc EXCEPT ![s] = IF c >= 0 THEN "isempty" ELSE "pluck"]
    /\ UNCHANGED <<log, commitOrder, wvars, wakeGoroutines, wakeCh, subLastKey,
                   scanLast, frames, seenAtInit>>

\* Subscribe handler and the start of streamLabels, for a cursor parameter
\* that is absent (-1) or below 2^63
Subscribe(s, c) ==
    /\ streamLabelsStart(s, c)
    /\ UNCHANGED avars

\* the conversion of a uint64 to int64
int64(n) == IF n > MaxInt64 THEN n - 2 ^ IntBits ELSE n

\* Subscribe handler and the start of streamLabels: the cursor parameter,
\* when there is one (form # -1), is parsed by strconv.ParseUint and
\* converted to int64; without one the cursor is -1
SubscribeForm(s, form) ==
    /\ streamLabelsStart(s, IF form = -1 THEN -1 ELSE int64(form))
    /\ formCursor' = [formCursor EXCEPT ![s] = form]
    /\ UNCHANGED <<a2vars, rcvars, connvars, qvars, mvars, fvars, hvars, lvars, kvars>>

\* futureCursor is true: the error frame is written and streamLabels returns
SendFutureCursor(s) ==
    /\ frames' = [frames EXCEPT ![s] = Append(@, FutureCursorFrame)]
    /\ spc' = [spc EXCEPT ![s] = "done"]
    /\ Unregister(s)

\* EmptyFutureCursor rejecting cursor 0 as well
EmptyFutureCursorZero(c) == c >= 0

\* futureCursor on an empty store
EmptyFutureCursor(c) == c > 0

\* cursor >= 0: s.IsEmpty(); on an empty store futureCursor = cursor > 0
SubIsEmpty(s) ==
    /\ spc[s] = "isempty"
    /\ IF ~ IsEmpty(log)
       THEN /\ spc' = [spc EXCEPT ![s] = "count"]
            /\ UNCHANGED <<frames, wakeChans, seenAtInit>>
       ELSE /\ seenAtInit' = [seenAtInit EXCEPT ![s] = Seqs(log)]
            /\ IF EmptyFutureCursor(cursor[s])
               THEN SendFutureCursor(s)
               ELSE /\ spc' = [spc EXCEPT ![s] = "catchup"]
                    /\ UNCHANGED <<frames, wakeChans>>
    /\ UNCHANGED <<log, commitOrder, wvars, avars, wakeGoroutines, wakeCh, cursor,
                   subLastKey, scanLast>>

\* LabelCount with Where("seq > ?", cursor)
LabelCountAbove(rows, c) == Cardinality({e \in rows : e.seq > c})

\* rows counted by Where("seq >= ?", cursor)
LabelCount(rows, c) == Cardinality({e \in rows : e.seq >= c})

\* non-empty store: futureCursor = labelCount == 0
SubCount(s) ==
    /\ spc[s] = "count"
    /\ seenAtInit' = [seenAtInit EXCEPT ![s] = Seqs(log)]
    /\ IF LabelCount(log, cursor[s]) = 0
       THEN SendFutureCursor(s)
       ELSE /\ spc' = [spc EXCEPT ![s] = "catchup"]
            /\ UNCHANGED <<frames, wakeChans>>
    /\ UNCHANGED <<log, commitOrder, wvars, avars, wakeGoroutines, wakeCh, cursor,
                   subLastKey, scanLast>>

\* one batch of a scan; a short batch ends FindInBatches
ScanStep(s, from, next) ==
    LET batch == Batch(log, from, scanLast[s])
    IN  /\ SendBatch(s, batch)
        /\ IF Len(batch) < BatchSize
           THEN /\ spc' = [spc EXCEPT ![s] = next]
                /\ scanLast' = [scanLast EXCEPT ![s] = 0]
           ELSE /\ spc' = spc
                /\ scanLast' = [scanLast EXCEPT ![s] = batch[Len(batch)].seq]

\* catch-up; after it the first ping is written and the loop is entered
SubCatchUp(s) ==
    /\ spc[s] = "catchup"
    /\ ScanStep(s, CatchUpFrom(s), "tail")
    /\ UNCHANGED <<log, commitOrder, wvars, avars, wakeGoroutines, wakeChans, wakeCh,
                   cursor, seenAtInit>>

\* no cursor: lastKey = highest seq (0 on an empty store)
SubPluck(s) ==
    /\ spc[s] = "pluck"
    /\ subLastKey' = [subLastKey EXCEPT ![s] = PluckLastKey(log)]
    /\ seenAtInit' = [seenAtInit EXCEPT ![s] = Seqs(log)]
    /\ spc' = [spc EXCEPT ![s] = "tail"]
    /\ UNCHANGED <<log, commitOrder, wvars, avars, wakeGoroutines, wakeChans, wakeCh,
                   cursor, scanLast, frames>>

\* case <-wakeCh
SubWake(s) ==
    /\ spc[s] = "tail"
    /\ wakeCh[s] = 1
    /\ wakeCh' = [wakeCh EXCEPT ![s] = 0]
    /\ spc' = [spc EXCEPT ![s] = "wakescan"]
    /\ UNCHANGED <<log, commitOrder, wvars, avars, wakeGoroutines, wakeChans, cursor,
                   subLastKey, scanLast, frames, seenAtInit>>

\* the scan after a wake-up
SubWakeScan(s) ==
    /\ spc[s] = "wakescan"
    /\ ScanStep(s, WakeFrom(s), "tail")
    /\ UNCHANGED <<log, commitOrder, wvars, avars, wakeGoroutines, wakeChans, wakeCh,
                   cursor, seenAtInit>>

\* ------------------------------------------------------------------- Next
\* labels written while subscriptions are observed: one identity, the
\* expiration alternating, so that a call is admitted or a no-op
StreamLabels == {l \in Labels : l.src = ServerDid /\ l.cid = "" /\ ~ l.neg}

Next ==
    \/ \E w \in Writers, label \in StreamLabels : AddLabel(w, label)
    \/ \E w \in Writers : TxPluckLastKey(w)
    \/ \E w \in Writers : TxFind(w)
    \/ \E w \in Writers : TxCreate(w)
    \/ \E w \in Writers : TxCountAndCommit(w)
    \/ wakeUpSubs
    \/ \E s \in Subs, c \in Cursors : Subscribe(s, c)
    \/ \E s \in Subs : SubIsEmpty(s)
    \/ \E s \in Subs : SubCount(s)
    \/ \E s \in Subs : SubCatchUp(s)
    \/ \E s \in Subs : SubPluck(s)
    \/ \E s \in Subs : SubWake(s)
    \/ \E s \in Subs : SubWakeScan(s)

Spec == Init /\ [][Next]_vars

\* values of the cursor parameter: none (-1), the low ones, the highest
\* int64, the lowest and the highest uint64 above it
FormCursors == ((-1) .. MaxCursor) \cup {MaxInt64, MaxInt64 + 1, 2 * MaxInt64 + 1}

\* writers and a subscription whose cursor parameter is any uint64
FormNext ==
    \/ \E w \in Writers, label \in StreamLabels : AddLabel(w, label)
    \/ \E w \in Writers : TxPluckLastKey(w)
    \/ \E w \in Writers : TxFind(w)
    \/ \E w \in Writers : TxCreate(w)
    \/ \E w \in Writers : TxCountAndCommit(w)
    \/ wakeUpSubs
    \/ \E s \in Subs, form \in FormCursors : SubscribeForm(s, form)
    \/ \E s \in Subs : SubIsEmpty(s)
    \/ \E s \in Subs : SubCount(s)
    \/ \E s \in Subs : SubCatchUp(s)
    \/ \E s \in Subs : SubPluck(s)
    \/ \E s \in Subs : SubWake(s)
    \/ \E s \in Subs : SubWakeScan(s)

FormSpec == Init /\ [][FormNext]_vars

\* the writer path alone, every label an input
WriterNext ==
    \/ \E w \in Writers, label \in Labels : AddLabel(w, label)
    \/ \E w \in Writers : TxPluckLastKey(w)
    \/ \E w \in Writers : TxFind(w)
    \/ \E w \in Writers : TxCreate(w)
    \/ \E w \in Writers : TxCountAndCommit(w)
    \/ wakeUpSubs

WriterSpec == Init /\ [][WriterNext]_vars

\* one writer and one subscription, the subscriber and the wake-up
\* goroutine scheduled fairly
LiveWriters == {"w1"}

LiveNext ==
    \/ \E w \in LiveWriters, label \in StreamLabels : AddLabel(w, label)
    \/ \E w \in LiveWriters : TxPluckLastKey(w)
    \/ \E w \in LiveWriters : TxFind(w)
    \/ \E w \in LiveWriters : TxCreate(w)
    \/ \E w \in LiveWriters : TxCountAndCommit(w)
    \/ wakeUpSubs
    \/ \E s \in Subs, c \in Cursors : Subscribe(s, c)
    \/ \E s \in Subs : SubIsEmpty(s)
    \/ \E s \in Subs : SubCount(s)
    \/ \E s \in Subs : SubCatchUp(s)
    \/ \E s \in Subs : SubPluck(s)
    \/ \E s \in Subs : SubWake(s)
    \/ \E s \in Subs : SubWakeScan(s)

FairSpec ==
    /\ Init /\ [][LiveNext]_vars
    /\ WF_vars(wakeUpSubs)
    /\ \A s \in Subs : WF_vars(SubIsEmpty(s) \/ SubCount(s) \/ SubCatchUp(s)
                               \/ SubPluck(s) \/ SubWake(s) \/ SubWakeScan(s))

\* labels of one identity, any exp, any neg
FairLabels == {l \in Labels : l.src = ServerDid /\ l.cid = ""}

\* the writer path of one identity with every step of a call taken
\* eventually (a call does not stop in the middle)
FairWriterNext ==
    \/ \E w \in Writers, label \in FairLabels : AddLabel(w, label)
    \/ \E w \in Writers : TxPluckLastKey(w)
    \/ \E w \in Writers : TxFind(w)
    \/ \E w \in Writers : TxCreate(w)
    \/ \E w \in Writers : TxCountAndCommit(w)

FairWriterSpec ==
    /\ Init /\ [][FairWriterNext]_vars
    /\ \A w \in Writers : WF_vars(TxPluckLastKey(w) \/ TxFind(w) \/ TxCreate(w)
                                  \/ TxCountAndCommit(w))

\* ------------------------------------------------- connection failures
\* streamLabels returns: the deferred function unregisters the wake channel
Terminate(s) ==
    /\ spc' = [spc EXCEPT ![s] = "done"]
    /\ Unregister(s)

\* a query of the store returns an error (IsEmpty, Count, FindInBatches,
\* Pluck): the error is logged and streamLabels returns
SubStorageError(s) ==
    /\ spc[s] \in {"isempty", "count", "catchup", "pluck", "wakescan"}
    /\ Terminate(s)
    /\ scanLast' = [scanLast EXCEPT ![s] = 0]
    /\ UNCHANGED <<log, commitOrder, wvars, wakeGoroutines, wakeCh, cursor, subLastKey,
                   frames, seenAtInit, a2vars, rcvars, connvars, qvars, mvars, evars>>

\* a stream that goes on after sendLabel has returned an error
AfterSendErrorContinue(pc) == pc

\* sendLabel returns an error: the callback returns it, FindInBatches
\* stops and streamLabels returns
AfterSendError(pc) == "done"

\* the scan of the current position
ScanFrom(s) == IF spc[s] = "catchup" THEN CatchUpFrom(s) ELSE WakeFrom(s)

\* in a batch of a scan the k-th sendLabel fails: the rows before it were
\* sent, no row after it is
SubSendFails(s) ==
    /\ spc[s] \in {"catchup", "wakescan"}
    /\ LET batch == Batch(log, ScanFrom(s), scanLast[s])
       IN  \E k \in 1 .. Len(batch) : SendBatch(s, SubSeq(batch, 1, k - 1))
    /\ scanLast' = [scanLast EXCEPT ![s] = 0]
    /\ spc' = [spc EXCEPT ![s] = AfterSendError(spc[s])]
    /\ wakeChans' = IF AfterSendError(spc[s]) = "done" THEN wakeChans \ {s} ELSE wakeChans
    /\ ioError' = [ioError EXCEPT ![s] = TRUE]
    /\ UNCHANGED <<log, commitOrder, wvars, wakeGoroutines, wakeCh, cursor, seenAtInit,
                   a2vars, rcvars, cancelled, qvars, mvars, evars>>

\* conn.WriteControl(PingMessage) returns an error, before the loop or on a
\* tick of the ticker: streamLabels returns
SubPingFails(s) ==
    /\ spc[s] = "tail"
    /\ Terminate(s)
    /\ ioError' = [ioError EXCEPT ![s] = TRUE]
    /\ UNCHANGED <<log, commitOrder, wvars, wakeGoroutines, wakeCh, cursor, subLastKey,
                   scanLast, frames, seenAtInit, a2vars, rcvars, cancelled, qvars, mvars, evars>>

\* the context of the request is cancelled (the client is gone or the
\* server shuts down); streamLabels has no case for ctx.Done() and passes
\* ctx to no query, so nothing else changes
Cancel(s) ==
    /\ spc[s] \notin {"idle", "done"}
    /\ ~ cancelled[s]
    /\ cancelled' = [cancelled EXCEPT ![s] = TRUE]
    /\ UNCHANGED <<log, commitOrder, wvars, wakeGoroutines, svars, a2vars, rcvars,
                   ioError, qvars, mvars, evars>>

\* the handler has returned and the connection is closed; the next
\* connection starts with fresh locals and a fresh wake channel
ConnClosed(s) ==
    /\ spc[s] = "done"
    /\ spc' = [spc EXCEPT ![s] = "idle"]
    /\ cursor' = [cursor EXCEPT ![s] = -1]
    /\ subLastKey' = [subLastKey EXCEPT ![s] = 0]
    /\ scanLast' = [scanLast EXCEPT ![s] = 0]
    /\ frames' = [frames EXCEPT ![s] = <<>>]
    /\ seenAtInit' = [seenAtInit EXCEPT ![s] = {}]
    /\ wakeCh' = [wakeCh EXCEPT ![s] = 0]
    /\ cancelled' = [cancelled EXCEPT ![s] = FALSE]
    /\ ioError' = [ioError EXCEPT ![s] = FALSE]
    /\ UNCHANGED <<log, commitOrder, wvars, wakeGoroutines, wakeChans, a2vars, rcvars,
                   qvars, mvars, evars>>

\* one writer and connections that fail, are cancelled and are replaced
ConnNext ==
    \/ \E w \in LiveWriters, label \in StreamLabels : AddLabel(w, label)
    \/ \E w \in LiveWriters : TxPluckLastKey(w)
    \/ \E w \in LiveWriters : TxFind(w)
    \/ \E w \in LiveWriters : TxCreate(w)
    \/ \E w \in LiveWriters : TxCountAndCommit(w)
    \/ wakeUpSubs
    \/ \E s \in Subs, c \in Cursors : Subscribe(s, c)
    \/ \E s \in Subs : SubIsEmpty(s)
    \/ \E s \in Subs : SubCount(s)
    \/ \E s \in Subs : SubCatchUp(s)
    \/ \E s \in Subs : SubPluck(s)
    \/ \E s \in Subs : SubWake(s)
    \/ \E s \in Subs : SubWakeScan(s)
    \/ \E s \in Subs : SubStorageError(s)
    \/ \E s \in Subs : SubSendFails(s)
    \/ \E s \in Subs : SubPingFails(s)
    \/ \E s \in Subs : Cancel(s)
    \/ \E s \in Subs : ConnClosed(s)

ConnSpec == Init /\ [][ConnNext]_vars

\* the same, with the subscriber and the wake-up goroutine scheduled fairly;
\* failures and cancellations may or may not happen
FairConnSpec ==
    /\ Init /\ [][ConnNext]_vars
    /\ WF_vars(wakeUpSubs)
    /\ \A s \in Subs : WF_vars(SubIsEmpty(s) \/ SubCount(s) \/ SubCatchUp(s)
                               \/ SubPluck(s) \/ SubWake(s) \/ SubWakeScan(s))

\* --------------------------------------------------------------- collapse
\* the key of the nested skip map without the cid level
SkipKeyNoCid(e) == <<e.src, e.val, e.uri>>

\* the key of the nested skip map: skip[e.Src][e.Val][e.Uri][e.Cid]
SkipKey(e) == <<e.src, e.val, e.uri, e.cid>>

\* the loop of dedupeAndNegateEntries at index k (1-based), going down: a
\* negation marks its key, a marked key is skipped, a kept entry marks its key
RECURSIVE dedupeLoop(_, _, _, _)
dedupeLoop(es, k, skip, out) ==
    IF k < 1 THEN out
    ELSE LET e == es[k]
         IN  IF e.neg \/ SkipKey(e) \in skip
             THEN dedupeLoop(es, k - 1, skip \cup {SkipKey(e)}, out)
             ELSE dedupeLoop(es, k - 1, skip \cup {SkipKey(e)}, Append(out, e))

\* dedupeAndNegateEntries with a loop that stops before the first element
dedupeAndNegateEntriesFromSecond(es) ==
    IF es = <<>> THEN <<>> ELSE dedupeLoop(Tail(es), Len(es) - 1, {}, <<>>)

\* dedupeAndNegateEntries: from the last element to the first
dedupeAndNegateEntries(es) == dedupeLoop(es, Len(es), {}, <<>>)

\* arguments of the collapse: lists of at most MaxLen entries in ascending seq
DedupeLabels == {l \in Labels : l.src = ServerDid}

DedupeArgs ==
    UNION {{[k \in 1 .. n |-> FromLabel(k, f[k])] : f \in [1 .. n -> DedupeLabels]} :
           n \in 0 .. MaxLen}

DedupeInit ==
    /\ InitState
    /\ keyArg = <<>>
    /\ bytesArg = <<>>
    /\ did = ServerDid
    /\ qReq = NoRequest
    /\ oldDb = <<>>
    /\ dedupeArg \in DedupeArgs

\* a caller applies dedupeAndNegateEntries to rows ordered by seq asc
DedupeCall ==
    /\ dedupePc = 0
    /\ dedupeRes' = dedupeAndNegateEntries(dedupeArg)
    /\ dedupePc' = 1
    /\ UNCHANGED <<log, commitOrder, wvars, wakeGoroutines, svars, did, allowedLabels,
                   rejected, impPc, impLeft, impRet, dedupeArg, dedupeTwice, cvars>>

\* the result is collapsed once more
DedupeAgain ==
    /\ dedupePc = 1
    /\ dedupeTwice' = dedupeAndNegateEntries(dedupeRes)
    /\ dedupePc' = 2
    /\ UNCHANGED <<log, commitOrder, wvars, wakeGoroutines, svars, did, allowedLabels,
                   rejected, impPc, impLeft, impRet, dedupeArg, dedupeRes, cvars>>

DedupeNext == DedupeCall \/ DedupeAgain

DedupeSpec == DedupeInit /\ [][DedupeNext]_vars

\* ------------------------------------------------------------------ query
\* Server.query with the rows in descending seq order
queryDescending(rows, uriPatterns, sources) ==
    LET found == {e \in rows : e.uri \in uriPatterns /\ (sources = {} \/ e.src \in sources)}
        asc == SortBySeq(found)
    IN  dedupeAndNegateEntries([k \in 1 .. Len(asc) |-> asc[Len(asc) + 1 - k]])

\* Server.query: the rows with uri in uriPatterns (and src in sources when
\* sources are given), Order("seq asc"), collapsed
query(rows, uriPatterns, sources) ==
    LET found == {e \in rows : e.uri \in uriPatterns /\ (sources = {} \/ e.src \in sources)}
    IN  dedupeAndNegateEntries(SortBySeq(found))

\* ------------------------------------------------------------- allow-list
\* SetAllowedLabels: under s.mu, a fresh map holding the given values
SetAllowedLabels(labels) ==
    /\ impPc = "idle"
    /\ allowedLabels' = labels
    /\ UNCHANGED <<log, commitOrder, wvars, wakeGoroutines, svars, did, rejected,
                   impPc, impLeft, impRet, dedupeArg, dedupeRes, dedupeTwice, dedupePc, cvars>>

\* label values of the calls and of the lists given to SetAllowedLabels
AllowVals == {"a", "b"}

AllowLabels == [src : Srcs, uri : Uris, val : AllowVals, cid : {""}, exp : {""},
                neg : BOOLEAN]

\* the lists given to SetAllowedLabels: no restriction, or "b" only
AllowLists == {{}, {"b"}}

\* the configured identity may be absent (an empty did in the configuration)
Dids == {"", ServerDid}

AllowInit ==
    /\ InitState
    /\ keyArg = <<>>
    /\ bytesArg = <<>>
    /\ did \in Dids
    /\ dedupeArg = <<>>
    /\ qReq = NoRequest
    /\ oldDb = <<>>

\* AddLabel calls of two clients and changes of the allow-list
AllowNext ==
    \/ \E w \in Writers, label \in AllowLabels : AddLabel(w, label)
    \/ \E w \in Writers : TxPluckLastKey(w)
    \/ \E w \in Writers : TxFind(w)
    \/ \E w \in Writers : TxCreate(w)
    \/ \E w \in Writers : TxCountAndCommit(w)
    \/ \E labels \in AllowLists : SetAllowedLabels(labels)

AllowSpec == AllowInit /\ [][AllowNext]_vars

\* ----------------------------------------------------------- ImportEntries
\* the first batch of splitInBatches over the sorted keys: the n smallest
FirstKeys(keys, n) == {k \in keys : Cardinality({j \in keys : j < k}) < n}

\* a batch insert that replaces the contents of the table
ImportCreateReplacing(rows, values) == values

\* s.db.Create(&values): the rows of one batch, at the given keys
ImportCreate(rows, values) == rows \cup values

\* the seq of a row of a batch: FromLabel(k, entries[k]) sets Seq to the
\* key, and Create takes a zero Seq as not set, as it does for the row of
\* writeLabel: the table assigns the seq (keys are sorted, so key 0 is the
\* first row of the first batch)
ImportSeq(rows, k) == IF k = 0 THEN NextSeq(rows) ELSE k

\* ImportEntries up to its loop: s.mu is taken and held to the end; on a
\* store that is not empty it returns an error, with no entries it returns nil
ImportStart(m) ==
    /\ impPc = "idle"
    /\ IF ~ IsEmpty(log)
       THEN /\ impRet' = "database is not empty"
            /\ UNCHANGED <<impPc, impLeft>>
       ELSE IF DOMAIN m = {}
            THEN /\ impRet' = "nil"
                 /\ UNCHANGED <<impPc, impLeft>>
            ELSE /\ impPc' = "run"
                 /\ impLeft' = m
                 /\ impRet' = "none"

\* a call of ImportEntries by a client of the server
ImportEntries(m) ==
    /\ ImportStart(m)
    /\ UNCHANGED <<log, commitOrder, wvars, wakeGoroutines, svars, did, allowedLabels,
                   rejected, dedupeArg, dedupeRes, dedupeTwice, dedupePc, cvars>>

\* one iteration of the loop: the next batch of keys is created in one
\* statement, outside any transaction; an error (a taken key, or one of the
\* store: fails) ends the call, the rows of earlier batches stay; after the
\* last batch the call returns nil
ImportBatch ==
    /\ impPc = "run"
    /\ \A u \in Writers : pending[u] = {}
    /\ \E fails \in BOOLEAN :
       LET ks == FirstKeys(DOMAIN impLeft, ImportBatchSize)
           values == {FromLabel(ImportSeq(log, k), impLeft[k]) : k \in ks}
           rest == DOMAIN impLeft \ ks
       IN  IF \/ fails
              \/ \E k \in ks : KeyTaken(log, ImportSeq(log, k))
              \/ \E j, k \in ks : j # k /\ ImportSeq(log, j) = ImportSeq(log, k)
           THEN /\ impPc' = "idle"
                /\ impLeft' = <<>>
                /\ impRet' = "error"
                /\ UNCHANGED <<log, commitOrder>>
           ELSE /\ log' = ImportCreate(log, values)
                /\ commitOrder' = commitOrder \o [n \in 1 .. Cardinality(ks) |->
                                                      SortBySeq(values)[n].seq]
                /\ IF rest = {}
                   THEN impPc' = "idle" /\ impLeft' = <<>> /\ impRet' = "nil"
                   ELSE /\ impLeft' = [k \in rest |-> impLeft[k]]
                        /\ UNCHANGED <<impPc, impRet>>
    /\ UNCHANGED <<wvars, wakeGoroutines, svars, did, allowedLabels, rejected,
                   dedupeArg, dedupeRes, dedupeTwice, dedupePc, cvars>>

\* labels of AddLabel calls with any val, the empty one included
StoreLabels == [src : {ServerDid}, uri : Uris, val : {"", "a"}, cid : {""}, exp : Exps,
                neg : BOOLEAN]

\* labels of imported entries: ImportEntries takes them as they are
ImportLabels == [src : Srcs, uri : Uris, val : {"a"}, cid : {""}, exp : {""},
                 neg : {FALSE}]

\* arguments of ImportEntries: maps from keys in 0 .. MaxImport to labels
ImportArgs == UNION {[keys -> ImportLabels] : keys \in SUBSET (0 .. MaxImport)}

\* the client whose AddLabel calls run next to ImportEntries
StoreWriters == {"w1"}

\* every operation that writes to the store: AddLabel calls and ImportEntries
StoreNext ==
    \/ \E w \in StoreWriters, label \in StoreLabels : AddLabel(w, label)
    \/ \E w \in StoreWriters : TxPluckLastKey(w)
    \/ \E w \in StoreWriters : TxFind(w)
    \/ \E w \in StoreWriters : TxCreate(w)
    \/ \E w \in StoreWriters : TxCountAndCommit(w)
    \/ \E m \in ImportArgs : ImportEntries(m)
    \/ ImportBatch

StoreSpec == Init /\ [][StoreNext]_vars

\* ------------------------------------------ store with concurrent inserts
\* tx.Create(&newLabel) on the store opened by newServer, in a transaction
\* of level READ COMMITTED: the rows of open transactions are invisible to
\* each other and do not block each other; a zero Seq takes the next value
\* of the column's sequence, which a rollback does not give back; a
\* non-zero Seq is inserted as given, waits for an open transaction holding
\* that key and fails on a committed one
RcCreate(w) ==
    /\ wpc[w] = "create"
    /\ IF newLabel[w].seq = 0
       THEN /\ lastSeq < MaxLog
            /\ lastSeq' = lastSeq + 1
            /\ IF KeyTaken(log, lastSeq + 1)
               THEN TxFailed(w)
               ELSE LET row == [newLabel[w] EXCEPT !.seq = lastSeq + 1]
                    IN  /\ newLabel' = [newLabel EXCEPT ![w] = row]
                        /\ pending' = [pending EXCEPT ![w] = {row}]
                        /\ wpc' = [wpc EXCEPT ![w] = "count"]
                        /\ UNCHANGED <<i, ret, lastKey, updated, overlapped>>
       ELSE /\ \A u \in Writers \ {w} : newLabel[w].seq \notin Seqs(pending[u])
            /\ UNCHANGED lastSeq
            /\ IF KeyTaken(log, newLabel[w].seq)
               THEN TxFailed(w)
               ELSE /\ pending' = [pending EXCEPT ![w] = {newLabel[w]}]
                    /\ wpc' = [wpc EXCEPT ![w] = "count"]
                    /\ UNCHANGED <<newLabel, i, ret, lastKey, updated, overlapped>>
    /\ UNCHANGED <<log, commitOrder, wakeGoroutines, svars, a2vars, connvars, qvars, mvars, evars>>

\* labels of the calls on this store: one identity, any exp, any neg
RcLabels == {l \in Labels : l.src = ServerDid /\ l.cid = ""}

\* AddLabel calls of two clients on the store with concurrent inserts
RcNext ==
    \/ \E w \in Writers, label \in RcLabels : AddLabel(w, label)
    \/ \E w \in Writers : TxPluckLastKey(w)
    \/ \E w \in Writers : TxFind(w)
    \/ \E w \in Writers : RcCreate(w)
    \/ \E w \in Writers : TxCountAndCommit(w)

RcSpec == Init /\ [][RcNext]_vars

\* -------------------------------------------------------------- migration
\* the bytes of big.Int.Bytes: big-endian, none for 0
RECURSIVE bigBytes(_)
bigBytes(n) == IF n = 0 THEN <<>> ELSE Append(bigBytes(n \div 256), n % 256)

\* a key without the byte of the length
encodeKeyNoLength(n) == bigBytes(n)

\* encodeKey: one byte with the length, then the bytes of the number
encodeKey(n) == <<Len(bigBytes(n))>> \o bigBytes(n)

\* big.Int.SetBytes
RECURSIVE setBytes(_)
setBytes(b) ==
    IF Len(b) = 0 THEN 0 ELSE setBytes(SubSeq(b, 1, Len(b) - 1)) * 256 + b[Len(b)]

\* big.Int.IsInt64 of the number of these bytes, the first of which is not
\* zero: with more bytes than the width has, it does not fit
IsInt64(b) == Len(b) * 8 < IntBits + 8 /\ setBytes(b) <= MaxInt64

\* decodeKey without the test of the first byte of the number
decodeKeyAnyEncoding(b) ==
    IF Len(b) = 0 THEN [ok |-> FALSE, n |-> 0]
    ELSE IF Len(b) # b[1] + 1 THEN [ok |-> FALSE, n |-> 0]
    ELSE IF b[1] = 0 THEN [ok |-> FALSE, n |-> 0]
    ELSE IF ~ IsInt64(Tail(b)) THEN [ok |-> FALSE, n |-> 0]
    ELSE [ok |-> TRUE, n |-> setBytes(Tail(b))]

\* decodeKey: an error for an empty key, a wrong length, a zero length, a
\* leading zero byte and a number that does not fit into int64
decodeKey(b) ==
    IF Len(b) = 0 THEN [ok |-> FALSE, n |-> 0]
    ELSE IF Len(b) # b[1] + 1 THEN [ok |-> FALSE, n |-> 0]
    ELSE IF b[1] = 0 THEN [ok |-> FALSE, n |-> 0]
    ELSE IF b[2] = 0 THEN [ok |-> FALSE, n |-> 0]
    ELSE IF ~ IsInt64(Tail(b)) THEN [ok |-> FALSE, n |-> 0]
    ELSE [ok |-> TRUE, n |-> setBytes(Tail(b))]

\* the order of the keys of a bucket: bytewise
RECURSIVE BytesLess(_, _)
BytesLess(a, b) ==
    IF Len(b) = 0 THEN FALSE
    ELSE IF Len(a) = 0 THEN TRUE
    ELSE IF a[1] # b[1] THEN a[1] < b[1]
    ELSE BytesLess(Tail(a), Tail(b))

\* json.Unmarshal of the body of a record of the old store
Unmarshal(v) == v[1]

\* boltAdapter.LastKey: the decoded last key of the bucket, 0 without keys
LastKey(db) ==
    IF DOMAIN db = {} THEN [ok |-> TRUE, n |-> 0]
    ELSE decodeKey(CHOOSE k \in DOMAIN db : \A j \in DOMAIN db \ {k} : BytesLess(j, k))

\* records that GetLabels leaves out: none
SkippedNone(v) == FALSE

\* boltAdapter.GetLabels leaves out the records with an empty body
Skipped(v) == Len(v) = 0

\* boltAdapter.GetLabels: the labels of the records that are not left out,
\* by decoded key; an error when one of these keys does not decode
GetLabels(db) ==
    LET ks == {k \in DOMAIN db : ~ Skipped(db[k])}
    IN  IF \E k \in ks : ~ decodeKey(k).ok
        THEN [ok |-> FALSE, labels |-> <<>>]
        ELSE [ok |-> TRUE,
              labels |-> [n \in {decodeKey(k).n : k \in ks} |->
                            Unmarshal(db[encodeKey(n)])]]

\* a migration that finds nothing to do whatever the last keys are
NoMigrationNeededAlways(oldLastKey, newLastKey) == TRUE

\* "No migration needed": the new store is not behind the old one
NoMigrationNeeded(oldLastKey, newLastKey) == oldLastKey <= newLastKey

\* migrateOldDataToSQLite, migrateOldDataToPostgres, up to the loop of
\* ImportEntries: an error of a store (fails), nothing to do when the new
\* store is not behind the old one, an error when it is behind and not
\* empty, else the labels of the old store are imported
migrateOldData ==
    /\ migRet = "none"
    /\ \A w \in Writers : wpc[w] = "idle"
    /\ impPc = "idle"
    /\ \E fails \in BOOLEAN :
          IF fails \/ ~ LastKey(oldDb).ok
          THEN migRet' = "error" /\ UNCHANGED <<impPc, impLeft, impRet>>
          ELSE IF NoMigrationNeeded(LastKey(oldDb).n, PluckLastKey(log))
          THEN migRet' = "nil" /\ UNCHANGED <<impPc, impLeft, impRet>>
          ELSE IF PluckLastKey(log) # 0
          THEN migRet' = "not sure how to proceed" /\ UNCHANGED <<impPc, impLeft, impRet>>
          ELSE IF ~ GetLabels(oldDb).ok
          THEN migRet' = "error" /\ UNCHANGED <<impPc, impLeft, impRet>>
          ELSE migRet' = "import" /\ ImportStart(GetLabels(oldDb).labels)
    /\ UNCHANGED <<log, commitOrder, wvars, wakeGoroutines, svars, did, allowedLabels,
                   rejected, dedupeArg, dedupeRes, dedupeTwice, dedupePc, rcvars,
                   connvars, qvars, oldDb, evars>>

\* NewWithConfig went on to newServer or newWithSQLite: the migration
\* returned nil, or the ImportEntries it ended with did
Serving ==
    \/ migRet = "nil"
    \/ migRet = "import" /\ impPc = "idle" /\ impRet = "nil"

\* the process ends and NewWithConfig is called again with the same config
Restart ==
    /\ migRet # "none"
    /\ \A w \in Writers : wpc[w] = "idle"
    /\ impPc = "idle"
    /\ migRet' = "none"
    /\ UNCHANGED <<log, commitOrder, wvars, wakeGoroutines, svars, a2vars, rcvars,
                   connvars, qvars, oldDb, evars>>

\* bodies of the records of the old store: empty (padding) or a label
OldBodies == {<<>>} \cup {<<l>> : l \in ImportLabels}

\* old stores: records at the keys of some of the numbers 0 .. MaxImport
OldDbs == UNION {[{encodeKey(n) : n \in ns} -> OldBodies] : ns \in SUBSET (0 .. MaxImport)}

MigrateInit ==
    /\ InitState
    /\ keyArg = <<>>
    /\ bytesArg = <<>>
    /\ did = ServerDid
    /\ dedupeArg = <<>>
    /\ qReq = NoRequest
    /\ oldDb \in OldDbs

\* start-ups with an old store, and one client of the server that runs
MigrateNext ==
    \/ migrateOldData
    \/ ImportBatch
    \/ Restart
    \/ \E w \in StoreWriters, label \in RcLabels : Serving /\ AddLabel(w, label)
    \/ \E w \in StoreWriters : TxPluckLastKey(w)
    \/ \E w \in StoreWriters : TxFind(w)
    \/ \E w \in StoreWriters : TxCreate(w)
    \/ \E w \in StoreWriters : TxCountAndCommit(w)

MigrateSpec == MigrateInit /\ [][MigrateNext]_vars

\* -------------------------------------------------------------- key codec
\* encodeKey of two numbers, as writeEntry calls it for the next key
EncodeKeys ==
    /\ keyArg # <<>>
    /\ keyEnc = <<>>
    /\ keyEnc' = <<encodeKey(keyArg[1]), encodeKey(keyArg[2])>>
    /\ UNCHANGED <<log, commitOrder, wvars, wakeGoroutines, svars, a2vars, rcvars,
                   connvars, qvars, mvars, fvars, hvars, lvars, keyArg, bytesArg,
                   bytesDec, uvars>>

\* decodeKey of a key of a bucket, as LastKey and GetLabels call it
DecodeKey ==
    /\ bytesDec = <<>>
    /\ bytesDec' = <<decodeKey(bytesArg)>>
    /\ UNCHANGED <<log, commitOrder, wvars, wakeGoroutines, svars, a2vars, rcvars,
                   connvars, qvars, mvars, fvars, hvars, lvars, keyArg, keyEnc,
                   bytesArg, uvars>>

\* decodeKey of a key that encodeKey made, as writeEntry reads the last key
DecodeEncodedKey ==
    /\ keyEnc # <<>>
    /\ bytesDec = <<>>
    /\ bytesArg' = keyEnc[1]
    /\ bytesDec' = <<decodeKey(keyEnc[1])>>
    /\ UNCHANGED <<log, commitOrder, wvars, wakeGoroutines, svars, a2vars, rcvars,
                   connvars, qvars, mvars, fvars, hvars, lvars, keyArg, keyEnc, uvars>>

\* numbers handed to encodeKey: near 1, near 256 and near the highest
KeyInputs ==
    (1 .. MaxKey) \cup ((256 - MaxKey) .. (256 + MaxKey)) \cup ((MaxInt64 - MaxKey) .. MaxInt64)

\* bytes of the keys handed to decodeKey
ByteSamples == {0, 1, 2, 3, 255}

\* keys handed to decodeKey: every sequence of these bytes up to MaxKeyLen
KeyStrings == UNION {[1 .. n -> ByteSamples] : n \in 0 .. MaxKeyLen}

\* two numbers to encode, or a key to decode
KeyInit ==
    /\ InitState
    /\ did = ServerDid
    /\ dedupeArg = <<>>
    /\ qReq = NoRequest
    /\ oldDb = <<>>
    /\ \/ keyArg \in KeyInputs \X KeyInputs /\ bytesArg = <<>>
       \/ keyArg = <<>> /\ bytesArg \in KeyStrings

KeyNext ==
    \/ EncodeKeys
    \/ DecodeKey
    \/ DecodeEncodedKey

KeySpec == KeyInit /\ [][KeyNext]_vars

\* ------------------------------------------------------- query validation
\* a pattern is a string, kept as the sequence of its pieces: the prefixes
\* "did:" and "at://", the wildcard "*" and other text "x"
Pieces == {"did:", "at://", "*", "x"}

\* longest pattern, in pieces
MaxPattern == 2

\* longest list of patterns of a request
MaxPatterns == 2

\* strings.HasPrefix
HasPrefix(p, prefix) == Len(p) >= 1 /\ p[1] = prefix

\* strings.Contains
Contains(p, piece) == \E n \in DOMAIN p : p[n] = piece

\* one iteration of the loop of Validate: the error of pattern p, if any
ValidatePattern(p) ==
    IF HasPrefix(p, "did:")
    THEN IF Contains(p, "*") THEN "errUnsupportedPattern" ELSE "nil"
    ELSE IF HasPrefix(p, "at://")
    THEN IF Contains(p, "*") THEN "errUnsupportedPattern" ELSE "nil"
    ELSE "invalid pattern"

\* the patterns of a list that Validate does not accept, by position
Offending(uriPatterns) ==
    {n \in DOMAIN uriPatterns : ValidatePattern(uriPatterns[n]) # "nil"}

\* queryRequestGet.Validate: the error of the first pattern that has one
Validate(q) ==
    IF Len(q.uriPatterns) = 0 THEN "need at least one pattern"
    ELSE IF Offending(q.uriPatterns) = {} THEN "nil"
    ELSE ValidatePattern(q.uriPatterns[Min(Offending(q.uriPatterns))])

\* a handler that answers every error of Validate with respond.BadRequest
RespondBadRequest(err) == 400

\* the response of Query to an error of Validate: errUnsupportedPattern
\* responds for itself (448), every other error is a respond.BadRequest
Respond(err) == IF err = "errUnsupportedPattern" THEN 448 ELSE 400

\* Entry.ToLabel: the fields of the row without its seq
ToLabel(e) ==
    [src |-> e.src, uri |-> e.uri, val |-> e.val, cid |-> e.cid, exp |-> e.exp,
     neg |-> e.neg]

\* entriesToLabels, and the loop of Query over the result
entriesToLabels(es) == [k \in DOMAIN es |-> ToLabel(es[k])]

\* the handler of Query: validation, then one read of the store (which may
\* fail: 500), then the signed labels (200)
Query ==
    /\ qStatus = 0
    /\ IF Validate(qReq) # "nil"
       THEN /\ qStatus' = Respond(Validate(qReq))
            /\ UNCHANGED qReads
            /\ UNCHANGED qLabels
       ELSE /\ qReads' = qReads + 1
            /\ \E failed \in BOOLEAN :
                  IF failed
                  THEN qStatus' = 500 /\ UNCHANGED qLabels
                  ELSE /\ qStatus' = 200
                       /\ qLabels' = entriesToLabels(query(log, Range(qReq.uriPatterns),
                                                            Range(qReq.sources)))
    /\ UNCHANGED <<log, commitOrder, wvars, wakeGoroutines, svars, a2vars, rcvars,
                   connvars, qReq, mvars, labelName, labelEntries, hvars, xvars>>

\* patterns of up to MaxPattern pieces
Patterns == UNION {[1 .. n -> Pieces] : n \in 0 .. MaxPattern}

\* requests with up to MaxPatterns patterns
QueryRequests ==
    [uriPatterns : UNION {[1 .. n -> Patterns] : n \in 0 .. MaxPatterns},
     sources : {<<>>}]

QueryInit ==
    /\ InitState
    /\ keyArg = <<>>
    /\ bytesArg = <<>>
    /\ did = ServerDid
    /\ dedupeArg = <<>>
    /\ oldDb = <<>>
    /\ qReq \in QueryRequests

QueryNext == Query

QuerySpec == QueryInit /\ [][QueryNext]_vars

\* ------------------------------------------------------------ admin API
\* a handler that answers 200 also when the label was admitted
StatusOkAlways(changed, err) == IF err THEN 400 ELSE 200

\* the response of serve: respond.BadRequest on an error, respond.Created
\* when changed, else respond.String
Status(changed, err) == IF err THEN 400 ELSE IF changed THEN 201 ELSE 200

\* Handler.serve up to the call of AddLabel, for a POST request with the
\* label as its body
serve(w, label) ==
    /\ apiPc[w] = "idle"
    /\ AddLabelCall(w, label)
    /\ apiPc' = [apiPc EXCEPT ![w] = "called"]
    /\ httpStatus' = [httpStatus EXCEPT ![w] = 0]
    /\ UNCHANGED <<fvars, xvars>>

\* Handler.serve after AddLabel has returned: the response
serveRespond(w) ==
    /\ apiPc[w] = "called"
    /\ wpc[w] = "idle"
    /\ httpStatus' = [httpStatus EXCEPT ![w] = Status(ret[w].changed, ret[w].err)]
    /\ apiPc' = [apiPc EXCEPT ![w] = "idle"]
    /\ UNCHANGED <<log, commitOrder, wvars, wakeGoroutines, svars, a2vars, rcvars,
                   connvars, qvars, mvars, fvars, xvars>>

\* labels of the POST requests: allowed and refused values, with negations
ApiLabels ==
    [src : {ServerDid}, uri : Uris, val : AllowVals, cid : {""}, exp : {""}, neg : BOOLEAN]

\* requests to the admin API, handled concurrently, and changes of the
\* allow-list
ApiNext ==
    \/ \E labels \in AllowLists : SetAllowedLabels(labels)
    \/ \E w \in Writers, label \in ApiLabels : serve(w, label)
    \/ \E w \in Writers : TxPluckLastKey(w)
    \/ \E w \in Writers : TxFind(w)
    \/ \E w \in Writers : TxCreate(w)
    \/ \E w \in Writers : TxCountAndCommit(w)
    \/ \E w \in Writers : serveRespond(w)

ApiSpec == Init /\ [][ApiNext]_vars

\* ----------------------------------------------- reads of the whole store
\* the rows of LabelEntries without the negations
LabelRowsNotNegated(rows, name) == {e \in rows : e.val = name /\ ~ e.neg}

\* Where("val = ?", labelName)
LabelRows(rows, name) == {e \in rows : e.val = name}

\* LabelEntries: the rows of the label name, Order("seq asc"), collapsed,
\* as labels
LabelEntries(name) ==
    /\ qStatus = 0
    /\ labelName = ""
    /\ labelName' = name
    /\ labelEntries' = entriesToLabels(dedupeAndNegateEntries(SortBySeq(LabelRows(log, name))))
    /\ UNCHANGED <<log, commitOrder, wvars, wakeGoroutines, svars, a2vars, rcvars,
                   connvars, qvars, mvars, qLabels, hvars, xvars>>

\* uris of the rows and patterns of the requests: one of each kind
FilterUris == {<<"did:", "x">>, <<"at://", "x">>}

\* labels of the rows: two sources, two uris, two values, with negations
FilterLabels ==
    [src : {ServerDid, "did:other"}, uri : FilterUris, val : {"a", "b"}, cid : {""},
     exp : {""}, neg : BOOLEAN]

\* requests that pass validation, with and without sources
FilterRequests ==
    [uriPatterns : {<<<<"did:", "x">>>>, <<<<"did:", "x">>, <<"at://", "x">>>>},
     sources : {<<>>, <<ServerDid>>}]

\* label names of the calls of LabelEntries
FilterNames == {"a", "b"}

\* a server on a store of up to MaxLen rows at the seqs 1, 2, ..
FilterInit ==
    /\ InitServer
    /\ keyArg = <<>>
    /\ bytesArg = <<>>
    /\ did = ServerDid
    /\ dedupeArg = <<>>
    /\ oldDb = <<>>
    /\ qReq \in FilterRequests
    /\ \E n \in 0 .. MaxLen : \E f \in [1 .. n -> FilterLabels] :
          log = {FromLabel(k, f[k]) : k \in 1 .. n}

\* one read of a store: a Query request or a call of LabelEntries
FilterNext ==
    \/ labelName = "" /\ Query
    \/ \E name \in FilterNames : LabelEntries(name)

FilterSpec == FilterInit /\ [][FilterNext]_vars

\* ------------------------------------------------- the server on bbolt
\* s.labels[src][uri][val][cid]: the entry of the map at the keys of the
\* given one, as a set
Found(m, entry) == {prev \in m : SameIdentity(prev, entry)}

\* locked_applyLabelCreation: no change when the map has an entry at these
\* keys with the same exp; else the entry is put there, unless dryRun
locked_applyLabelCreation(m, entry, dryRun) ==
    IF \E prev \in Found(m, entry) : prev.exp = entry.exp
    THEN [changed |-> FALSE, labels |-> m]
    ELSE [changed |-> TRUE,
          labels |-> IF dryRun THEN m ELSE (m \ Found(m, entry)) \cup {entry}]

\* locked_applyLabelRemoval: the entry at these keys is deleted, unless
\* dryRun; no change when there is none
locked_applyLabelRemoval(m, entry, dryRun) ==
    IF Found(m, entry) # {}
    THEN [changed |-> TRUE, labels |-> IF dryRun THEN m ELSE m \ Found(m, entry)]
    ELSE [changed |-> FALSE, labels |-> m]

\* writeEntry: the record is put at the key that follows the last key of
\* the bucket; an error when the last key does not decode
writeEntry(db, entry) ==
    IF ~ LastKey(db).ok
    THEN [ok |-> FALSE, db |-> db]
    ELSE [ok |-> TRUE,
          db |-> [k \in DOMAIN db \cup {encodeKey(LastKey(db).n + 1)} |->
                    IF k \in DOMAIN db THEN db[k] ELSE <<entry>>]]

\* addLabel, under s.mu: the allow-list, the dry run, the record, the map
addLabel(entry) ==
    IF ~ Allowed(allowedLabels, entry.val)
    THEN oldRet' = [changed |-> FALSE, err |-> TRUE] /\ UNCHANGED <<oldLabels, bucket>>
    ELSE IF ~ locked_applyLabelCreation(oldLabels, entry, TRUE).changed
    THEN oldRet' = [changed |-> FALSE, err |-> FALSE] /\ UNCHANGED <<oldLabels, bucket>>
    ELSE IF ~ writeEntry(bucket, entry).ok
    THEN oldRet' = [changed |-> FALSE, err |-> TRUE] /\ UNCHANGED <<oldLabels, bucket>>
    ELSE /\ bucket' = writeEntry(bucket, entry).db
         /\ oldLabels' = locked_applyLabelCreation(oldLabels, entry, FALSE).labels
         /\ oldRet' = [changed |-> locked_applyLabelCreation(oldLabels, entry, FALSE).changed,
                       err |-> FALSE]

\* removeLabel, under s.mu: the dry run, the record, the map
removeLabel(entry) ==
    IF ~ locked_applyLabelRemoval(oldLabels, entry, TRUE).changed
    THEN oldRet' = [changed |-> FALSE, err |-> FALSE] /\ UNCHANGED <<oldLabels, bucket>>
    ELSE IF ~ writeEntry(bucket, entry).ok
    THEN oldRet' = [changed |-> FALSE, err |-> TRUE] /\ UNCHANGED <<oldLabels, bucket>>
    ELSE /\ bucket' = writeEntry(bucket, entry).db
         /\ oldLabels' = locked_applyLabelRemoval(oldLabels, entry, FALSE).labels
         /\ oldRet' = [changed |-> locked_applyLabelRemoval(oldLabels, entry, FALSE).changed,
                       err |-> FALSE]

\* AddLabel of the server on bbolt: src defaults to the server's identity,
\* a negation goes to removeLabel, any other label to addLabel
OldAddLabel(label) ==
    LET l == IF label.src = "" THEN [label EXCEPT !.src = did] ELSE label
    IN  IF l.src = ""
        THEN oldRet' = [changed |-> FALSE, err |-> TRUE] /\ UNCHANGED <<oldLabels, bucket>>
        ELSE IF l.neg THEN removeLabel(l) ELSE addLabel(l)

\* the same call of AddLabel on both servers: the one on bbolt handles it
\* under its lock, the other starts its transaction
BothAddLabel(w, label) ==
    /\ OldAddLabel(label)
    /\ AddLabelCall(w, label)
    /\ UNCHANGED <<fvars, hvars, yvars>>

\* one client that hands every label to both servers, which start empty
EquivNext ==
    \/ \E w \in StoreWriters, label \in Labels : BothAddLabel(w, label)
    \/ \E w \in StoreWriters : TxPluckLastKey(w)
    \/ \E w \in StoreWriters : TxFind(w)
    \/ \E w \in StoreWriters : TxCreate(w)
    \/ \E w \in StoreWriters : TxCountAndCommit(w)

EquivSpec == Init /\ [][EquivNext]_vars

\* ----------------------------------------------------------------- claims
LabelSeqs(s) == {frames[s][k].seq : k \in {j \in DOMAIN frames[s] : frames[s][j].op = 1}}

Validated(s) == spc[s] \notin {"idle", "isempty", "count", "pluck"}

Admissible(rows, e) ==
    LET m == {l \in rows : SameIdentity(l, e)}
    IN  IF m = {} THEN ~ e.neg
        ELSE LET l == CHOOSE x \in m : x.seq = Max(Seqs(m))
             IN  l.neg # e.neg \/ l.exp # e.exp

C3_NoEntryTwice ==
    \A s \in Subs : \A a, b \in DOMAIN frames[s] :
        (a # b /\ frames[s][a].op = 1 /\ frames[s][b].op = 1)
            => frames[s][a].seq # frames[s][b].seq

\* C4: on one connection the seqs of the label frames are strictly increasing.
C4_FramesIncreasing ==
    \A s \in Subs : \A a \in DOMAIN frames[s] :
        (a > 1 /\ frames[s][a].op = 1 /\ frames[s][a - 1].op = 1)
            => frames[s][a - 1].seq < frames[s][a].seq

\* C5: with a cursor C >= 0, every committed entry with seq > C is
\* eventually emitted on the connection (unless the subscription was closed).
C5_NoGap ==
    \A s \in Subs : \A n \in 1 .. MaxLog :
        (cursor[s] >= 0 /\ spc[s] # "idle" /\ n > cursor[s] /\ n \in Seqs(log))
            ~> (n \in LabelSeqs(s) \/ spc[s] = "done")

\* an entry committed after catch-up ended has been emitted by a wake-up
C5_Witness ==
    \E s \in Subs :
        /\ cursor[s] >= 0 /\ spc[s] = "tail"
        /\ \E n \in LabelSeqs(s) : n \notin seenAtInit[s] /\ n > cursor[s]
        /\ Seqs(log) \ {n \in Seqs(log) : n <= cursor[s]} \subseteq LabelSeqs(s)
        /\ wakeCh[s] = 0 /\ wakeGoroutines = 0

\* C6: a subscription without cursor never emits an entry whose seq is at
\* most the highest seq of the store when the subscription initialised.
C6_LiveTailOnly ==
    \A s \in Subs :
        (cursor[s] < 0 /\ Validated(s))
            => \A n \in LabelSeqs(s) : n > Max(seenAtInit[s])

\* C7: with a cursor C > 0, when validation finds no entry with seq >= C
\* (an empty store included) the connection carries exactly one
\* FutureCursor frame, no label frame, and is closed; otherwise it never
\* carries a FutureCursor frame.
C7_FutureCursor ==
    \A s \in Subs :
        (cursor[s] > 0 /\ Validated(s)) =>
            IF \A n \in seenAtInit[s] : n < cursor[s]
            THEN frames[s] = <<FutureCursorFrame>> /\ spc[s] = "done"
            ELSE FutureCursorFrame \notin Range(frames[s])

\* a cursor ahead of a non-empty store was answered with FutureCursor
C7_Witness ==
    \E s \in Subs :
        /\ cursor[s] > 0 /\ seenAtInit[s] # {}
        /\ frames[s] = <<FutureCursorFrame>> /\ spc[s] = "done"

\* C8: with cursor 0 there is never a FutureCursor frame and the connection
\* stays open; the first label frame is the entry of lowest seq, and after
\* catch-up every entry that was in the store at validation has been sent.
C8_CursorZero ==
    \A s \in Subs :
        (cursor[s] = 0 /\ Validated(s)) =>
            /\ FutureCursorFrame \notin Range(frames[s])
            /\ spc[s] # "done"
            /\ frames[s] # <<>> => frames[s][1] = LabelFrame(Min(Seqs(log)))
            /\ spc[s] # "catchup" => seenAtInit[s] \subseteq LabelSeqs(s)

\* cursor 0 on an empty store: connected, and sent the first entry
\* admitted afterwards
C8_Witness ==
    \E s \in Subs :
        /\ cursor[s] = 0 /\ Validated(s) /\ seenAtInit[s] = {}
        /\ frames[s] # <<>>

\* C9: every label frame on a connection opened with cursor C >= 0 carries
\* a seq greater than C.
C9_AboveCursor ==
    \A s \in Subs :
        cursor[s] >= 0 => \A n \in LabelSeqs(s) : n > cursor[s]

\* a connection with cursor >= 1 on a store holding older entries has
\* emitted frames in catch-up and after a wake-up
C9_Witness ==
    \E s \in Subs :
        /\ cursor[s] >= 1 /\ spc[s] = "wakescan"
        /\ frames[s] # <<>>

\* C14: the collapse of a list in ascending seq contains an entry exactly
\* when it is the highest-seq entry of its identity in the list and is not
\* a negation; no identity appears twice in the result.
C14_CollapseLatestPositive ==
    dedupePc >= 1 =>
        /\ \A e \in Range(dedupeRes) \cup Range(dedupeArg) :
              e \in Range(dedupeRes) <=>
                  /\ e \in Range(dedupeArg)
                  /\ ~ e.neg
                  /\ \A f \in Range(dedupeArg) : SameIdentity(f, e) => f.seq <= e.seq
        /\ Len(dedupeRes) = Cardinality(Range(dedupeRes))

\* a list in which a negation shadows older entries and a newer entry of
\* another cid survives has been collapsed
C14_Witness ==
    /\ dedupePc >= 1
    /\ \E a, b \in Range(dedupeArg) : SameIdentity(a, b) /\ ~ a.neg /\ b.neg /\ a.seq < b.seq
    /\ \E a, b \in Range(dedupeArg) : ~ SameIdentity(a, b) /\ ~ a.neg /\ a.seq > b.seq
    /\ dedupeRes # <<>>

\* C15: the collapse is idempotent as a set: collapsing the result of a
\* collapse (which is in descending seq order) gives the same set of entries.
C15_CollapseIdempotent ==
    dedupePc = 2 => Range(dedupeTwice) = Range(dedupeRes)

\* a result of two entries, in descending seq order, has been collapsed again
C15_Witness ==
    /\ dedupePc = 2
    /\ Len(dedupeRes) = 2
    /\ dedupeRes[1].seq > dedupeRes[2].seq
    /\ Len(dedupeArg) = 3

\* the effective set of a store: the collapse of all its rows, compared by
\* (src, val, uri, cid, exp)
EffectiveSet(rows) ==
    {[src |-> e.src, val |-> e.val, uri |-> e.uri, cid |-> e.cid, exp |-> e.exp] :
        e \in Range(dedupeAndNegateEntries(SortBySeq(rows)))}

\* the step in which the AddLabel call of w commits and returns changed = true
Admits(w) == wpc[w] = "count" /\ wpc'[w] = "idle" /\ ret'[w].changed

\* C11: every AddLabel call that returns changed = true changes the
\* effective set of the store.
C11_ChangedChangesEffectiveSet ==
    [][\A w \in Writers : Admits(w) => EffectiveSet(log') # EffectiveSet(log)]_vars

C16_CidSeparatesIdentities ==
    [][\A w \in Writers : Admits(w) =>
          LET E == newLabel[w]
          IN  \A F \in {FromLabel(0, l) : l \in {x \in Labels : x.src = E.src /\ x.cid # E.cid}} :
                /\ NoOp(FindExisting(log', F, PluckLastKey(log')), F)
                     = NoOp(FindExisting(log, F, PluckLastKey(log)), F)
                /\ (\E e \in Range(query(log', {F.uri}, {})) : e.src = F.src /\ e.val = F.val /\ e.cid = F.cid)
                     = (\E e \in Range(query(log, {F.uri}, {})) : e.src = F.src /\ e.val = F.val /\ e.cid = F.cid)]_vars

\* a negation for one cid was admitted after a label of the other cid, which
\* is still in the query result
C16_Witness ==
    \E a, b \in log :
        /\ a.src = b.src /\ a.val = b.val /\ a.uri = b.uri /\ a.cid # b.cid
        /\ a.neg /\ a.seq = Max(Seqs(log)) /\ ~ b.neg /\ b.seq < a.seq
        /\ b \in Range(query(log, {b.uri}, {}))
        /\ \A e \in Range(query(log, {a.uri}, {})) : e.cid # a.cid

\* C12: an AddLabel call that returns changed = false (a no-op, a refusal by
\* the allow-list, a missing src, an error after the last attempt) leaves the
\* log as it was: the log changes only in the step in which a call commits
\* and returns changed = true without an error.
C12_UnchangedLeavesLog ==
    [][log' # log => \E w \in Writers : Admits(w) /\ ~ ret'[w].err]_vars

\* with rows in the log, one call was refused for its missing src and
\* another returned (false, nil) as a no-op
C12_Witness ==
    /\ log # {}
    /\ rejected # <<>> /\ rejected[1] = "missing src"
    /\ \E w, u \in Writers :
          /\ wpc[w] = "idle" /\ ret[w] = [changed |-> FALSE, err |-> TRUE]
          /\ wpc[u] = "idle" /\ ret[u] = [changed |-> FALSE, err |-> FALSE]
          /\ w # u

\* C17: negations bypass the allow-list: an AddLabel call with neg = true is
\* never refused by the allow-list test.
C17_NegationsBypassAllowList ==
    rejected # <<>> => ~ (rejected[1] = "not allowed" /\ rejected[2].neg)

\* C18: with a non-empty allow-list, AddLabel of a non-negated label whose
\* val is not in the list returns (false, error), appends nothing and starts
\* no wake-up; rows in the log stay there (and in the query results) when
\* the allow-list changes.
C18_AllowListRefuses ==
    [][/\ \A w \in Writers, l \in AllowLabels :
             (AddLabel(w, l) /\ ~ l.neg /\ allowedLabels # {} /\ l.val \notin allowedLabels)
             => /\ wpc'[w] = "idle"
                /\ ret'[w] = [changed |-> FALSE, err |-> TRUE]
                /\ log' = log
                /\ wakeGoroutines' = wakeGoroutines /\ wakeCh' = wakeCh
                /\ query(log', Uris, {}) = query(log, Uris, {})
       /\ allowedLabels' # allowedLabels
             => log' = log /\ query(log', Uris, {}) = query(log, Uris, {})]_vars

\* a non-negated label outside the list was refused while a row with a val
\* outside the list is in the log and in the query result
C18_Witness ==
    /\ allowedLabels # {}
    /\ rejected # <<>> /\ rejected[1] = "not allowed"
    /\ ~ rejected[2].neg /\ rejected[2].val \notin allowedLabels
    /\ \E w \in Writers : wpc[w] = "idle" /\ ret[w] = [changed |-> FALSE, err |-> TRUE]
    /\ \E e \in log : e.val \notin allowedLabels /\ e \in Range(query(log, Uris, {}))

\* C19: every row in the log has a non-empty src and a non-empty val,
\* whatever the arguments of the AddLabel and ImportEntries calls were.
C19_SrcAndValNonEmpty ==
    \A e \in log : e.src # "" /\ e.val # ""

\* C20: the log is append-only: a row committed at seq N stays in the log
\* with the same fields, and no other row ever has seq N.
C20_AppendOnly ==
    [][\A e \in log : e \in log' /\ \A f \in log' : f.seq = e.seq => f = e]_vars

\* an import of two batches has returned nil and an AddLabel call whose
\* first attempt was rolled back is retrying on the imported rows
C20_Witness ==
    /\ impRet = "nil"
    /\ Cardinality(log) > ImportBatchSize
    /\ \E w \in Writers : i[w] > 0 /\ wpc[w] = "find"

\* C21: in every reachable log, no two entries that are consecutive among
\* the entries of one identity (ordered by seq) have both the same neg and
\* the same exp; two concurrent AddLabel calls with the same label never
\* both commit an entry.
C21_NoRedundantEntries ==
    \A a, b \in log :
        (/\ a.src = b.src /\ a.val = b.val /\ a.uri = b.uri /\ a.cid = b.cid
         /\ a.seq < b.seq
         /\ ~ \E c \in log : /\ c.src = a.src /\ c.val = a.val /\ c.uri = a.uri
                              /\ c.cid = a.cid /\ a.seq < c.seq /\ c.seq < b.seq)
        => (a.neg # b.neg \/ a.exp # b.exp)

\* the transaction attempt of w fails in this step
AttemptFails(w) ==
    /\ wpc[w] \in {"create", "count"}
    /\ wpc'[w] \in {"begin", "idle"}
    /\ log' = log
    /\ ~ (wpc'[w] = "idle" /\ ~ ret'[w].err)

\* C22: AddLabel terminates after at most 5 transaction attempts: a call
\* never starts a sixth attempt; an attempt that commits returns its changed
\* flag and no error; when the fifth attempt fails the call returns
\* (false, error) and the log is as it was; every call returns eventually.
C22_AtMostFiveAttempts ==
    /\ [][\A w \in Writers :
            /\ i'[w] < MaxAttempts
            /\ (wpc[w] \in {"find", "count"} /\ wpc'[w] = "idle" /\ ~ AttemptFails(w))
                  => ret'[w] = [changed |-> (log' # log), err |-> FALSE]
            /\ (AttemptFails(w) /\ i[w] + 1 < MaxAttempts)
                  => wpc'[w] = "begin" /\ i'[w] = i[w] + 1
            /\ (AttemptFails(w) /\ i[w] + 1 = MaxAttempts)
                  => /\ wpc'[w] = "idle"
                     /\ ret'[w] = [changed |-> FALSE, err |-> TRUE]
                     /\ log' = log]_vars
    /\ \A w \in Writers : (wpc[w] # "idle") ~> (wpc[w] = "idle")

\* a call has returned (false, error) after its fifth attempt failed
C22_Witness ==
    \E w \in Writers :
        /\ wpc[w] = "idle" /\ ret[w] = [changed |-> FALSE, err |-> TRUE]
        /\ rejected = <<>>
        /\ log # {}

\* C23: waking subscribers never blocks and coalesces: a wakeUpSubs
\* goroutine that was started can always run, whatever the wake channels
\* hold; a wake channel never holds more than one wake; a wakeUpSubs
\* goroutine is started only by the step in which an AddLabel call commits
\* and returns changed = true.
C23_WakeCoalesces ==
    [][/\ wakeGoroutines' > wakeGoroutines
             => \E w \in Writers : Admits(w) /\ ~ ret'[w].err /\ log' # log
       /\ \A s \in Subs : wakeCh'[s] \in {0, 1}
       /\ wakeGoroutines > 0 => ENABLED wakeUpSubs]_vars

\* a wake is pending on the registered channel while another wakeUpSubs
\* goroutine is about to run, and a call has returned as a no-op
C23_Witness ==
    /\ \E s \in Subs : s \in wakeChans /\ wakeCh[s] = 1
    /\ wakeGoroutines > 0
    /\ \E w \in Writers : wpc[w] = "idle" /\ ret[w] = [changed |-> FALSE, err |-> FALSE]
    /\ log # {}

\* C24: the list of wake channels holds exactly the channels of the running
\* subscriptions: a channel is in it from the start of streamLabels (before
\* the cursor is validated) until streamLabels returns, on every exit path.
C24_WakeChansAreRunning ==
    wakeChans = {s \in Subs : spc[s] \notin {"idle", "done"}}

\* a subscription that had sent frames was ended by a failed write and its
\* channel is gone from the list
C24_Witness ==
    \E s \in Subs :
        /\ spc[s] = "done" /\ ioError[s] /\ frames[s] # <<>>
        /\ s \notin wakeChans

\* C25: once the context of a subscription is cancelled, streamLabels
\* eventually returns (and its wake channel is unregistered), also when no
\* write is admitted any more and the pings succeed.
C25_CancelTerminates ==
    \A s \in Subs : cancelled[s] ~> (spc[s] \in {"idle", "done"} /\ s \notin wakeChans)

\* C26: the first failed send of a frame or of a ping ends the stream: in
\* the step of the failure streamLabels returns, and no frame is written to
\* that connection afterwards.
C26_FirstFailureEndsStream ==
    [][\A s \in Subs :
          /\ ioError'[s] => spc'[s] = "done"
          /\ (ioError[s] /\ ioError'[s]) => frames'[s] = frames[s]]_vars

\* a send failed in the middle of a scan: frames were written before it
\* and a row above the cursor was never sent
C26_Witness ==
    \E s \in Subs :
        /\ ioError[s] /\ spc[s] = "done"
        /\ frames[s] # <<>>
        /\ \E e \in log : e.seq > cursor[s] /\ e.seq \notin LabelSeqs(s)

\* C27: ImportEntries works on an empty store only and keeps the keys of
\* its argument: on a store that is not empty it returns an error and the
\* log is unchanged; on an empty store every key k of the map ends up as
\* one entry at seq k with the fields of its label.
C27_ImportPreservesSeqs ==
    [][/\ (impPc = "idle" /\ impPc' = "run") => log = {}
       /\ (impRet' # impRet /\ impRet' = "database is not empty") =>
              (log # {} /\ log' = log)
       /\ (impPc = "run" /\ impLeft' # impLeft /\ impRet' # "error") =>
              log' = log \cup {FromLabel(k, impLeft[k]) :
                                  k \in DOMAIN impLeft \ DOMAIN impLeft'}]_vars

\* C28: the entry that an AddLabel call commits has the seq that follows the
\* highest committed seq at the moment of the commit, also in a store filled
\* by ImportEntries with sparse keys, and an attempt that is rolled back
\* leaves no entry (and so no hole) behind.
C28_AppendIsMaxPlusOne ==
    [][\A w \in Writers :
          /\ Admits(w) =>
                 \A e \in log' \ log : e.seq = PluckLastKey(log) + 1
          /\ (/\ wpc[w] \in {"create", "count"}
              /\ \/ wpc'[w] = "begin"
                 \/ wpc'[w] = "idle" /\ ret'[w].err) => log' = log]_vars

\* the entries of the records of the old store that have a body: the seq
\* is the number of the key, the fields are those of the label of the body
OldEntries ==
    {e \in [seq : 0 .. MaxImport, src : Srcs, uri : Uris, val : Vals, cid : {""},
            exp : {""}, neg : {FALSE}] :
        /\ encodeKey(e.seq) \in DOMAIN oldDb
        /\ oldDb[encodeKey(e.seq)] = <<[src |-> e.src, uri |-> e.uri, val |-> e.val,
                                        cid |-> e.cid, exp |-> e.exp, neg |-> e.neg]>>}

\* migrateOldData returns nil in this step, called on an empty new store
MigratedIntoEmpty ==
    \/ migRet = "none" /\ log = {} /\ migRet' = "nil"
    \/ migRet = "none" /\ log = {} /\ migRet' = "import" /\ impPc' = "idle" /\ impRet' = "nil"
    \/ migRet = "import" /\ impPc = "run" /\ impPc' = "idle" /\ impRet' = "nil"

\* C29: when the migration into an empty new store returns without an
\* error, the new store holds exactly the entries of the old store that have
\* a body, at the same seq and with the same fields, and nothing for a
\* record with an empty body.
C29_MigrationCopiesOldEntries ==
    [][MigratedIntoEmpty => log' = OldEntries]_vars

\* a migration has returned nil and copied an entry, the old store also
\* holds a record with an empty body, and the server has not written yet
C29_Witness ==
    /\ migRet = "import" /\ impPc = "idle" /\ impRet = "nil"
    /\ log # {} /\ log = OldEntries
    /\ \E k \in DOMAIN oldDb : Len(oldDb[k]) = 0
    /\ \E k \in DOMAIN oldDb : Len(oldDb[k]) # 0

\* the first pattern of the handled request that validation does not accept
FirstOffending == qReq.uriPatterns[Min(Offending(qReq.uriPatterns))]

\* the request was handled and has a pattern that validation does not accept
RefusedPattern == qStatus # 0 /\ Offending(qReq.uriPatterns) # {}

\* C30 as stated: no pattern, or a pattern that starts with neither "did:"
\* nor "at://": 400; a "*" in an "at://" pattern: 448; a "*" in a "did:"
\* pattern: 400; a refused request does not read the store.
C30_ValidationOutcomes ==
    /\ (qStatus # 0 /\ Len(qReq.uriPatterns) = 0) => qStatus = 400
    /\ (RefusedPattern /\ ~ HasPrefix(FirstOffending, "did:")
                       /\ ~ HasPrefix(FirstOffending, "at://")) => qStatus = 400
    /\ (RefusedPattern /\ HasPrefix(FirstOffending, "at://")) => qStatus = 448
    /\ (RefusedPattern /\ HasPrefix(FirstOffending, "did:")) => qStatus = 400
    /\ qStatus \in {400, 448} => qReads = 0

\* C30, amended: no pattern, or a pattern that starts with neither "did:"
\* nor "at://": 400; a "*" in an "at://" pattern and a "*" in a "did:"
\* pattern alike: 448; a refused request does not read the store.
C30_ValidationOutcomesAmended ==
    /\ (qStatus # 0 /\ Len(qReq.uriPatterns) = 0) => qStatus = 400
    /\ (RefusedPattern /\ ~ HasPrefix(FirstOffending, "did:")
                       /\ ~ HasPrefix(FirstOffending, "at://")) => qStatus = 400
    /\ (RefusedPattern /\ HasPrefix(FirstOffending, "at://")) =>
           (qStatus = 448 /\ Contains(FirstOffending, "*"))
    /\ (RefusedPattern /\ HasPrefix(FirstOffending, "did:")) =>
           (qStatus = 448 /\ Contains(FirstOffending, "*"))
    /\ qStatus \in {400, 448} => qReads = 0
    /\ qStatus \in {200, 500} => (qReads = 1 /\ Validate(qReq) = "nil")

\* a request whose first refused pattern is a "did:" pattern with a "*" was
\* answered with 448 and the store was not read
C30_Witness ==
    /\ RefusedPattern
    /\ HasPrefix(FirstOffending, "did:") /\ Contains(FirstOffending, "*")
    /\ qStatus = 448 /\ qReads = 0

\* the collapse of the whole store, as labels
EffectiveLabels == {ToLabel(e) : e \in Range(dedupeAndNegateEntries(SortBySeq(log)))}

\* C31: Query returns exactly the entries of the collapse of the whole log
\* whose uri is among the patterns (and whose src is among the sources, when
\* sources are given), and LabelEntries(v) exactly those whose val is v:
\* the filter applied before the collapse exposes nothing that the collapse
\* of the whole log drops.
C31_ReadsRestrictEffectiveSet ==
    /\ qStatus = 200 =>
          /\ Range(qLabels) =
                {l \in EffectiveLabels :
                    /\ l.uri \in Range(qReq.uriPatterns)
                    /\ (qReq.sources = <<>> \/ l.src \in Range(qReq.sources))}
          /\ Cardinality(Range(qLabels)) = Len(qLabels)
    /\ labelName # "" =>
          /\ Range(labelEntries) = {l \in EffectiveLabels : l.val = labelName}
          /\ Cardinality(Range(labelEntries)) = Len(labelEntries)

\* a Query was answered from a store in which a negation shadows an older
\* row inside the filter while rows outside the filter are effective
C31_Witness ==
    /\ qStatus = 200
    /\ \E e, n \in log :
          /\ e.uri \in Range(qReq.uriPatterns) /\ ~ e.neg
          /\ n.neg /\ n.seq > e.seq /\ SameIdentity(e, n)
          /\ ToLabel(e) \notin Range(qLabels)
    /\ \E l \in EffectiveLabels : l.uri \notin Range(qReq.uriPatterns)

\* LabelEntries was answered from a store in which a negation shadows an
\* older row of the label name while another label name is effective
C31_WitnessLabelEntries ==
    /\ labelName # ""
    /\ \E e, n \in log :
          /\ e.val = labelName /\ ~ e.neg
          /\ n.neg /\ n.seq > e.seq /\ SameIdentity(e, n)
          /\ ToLabel(e) \notin Range(labelEntries)
    /\ \E l \in EffectiveLabels : l.val # labelName

\* C32: the POST handler of the admin API answers 201 exactly when AddLabel
\* returned changed = true, 200 exactly when it returned changed = false and
\* no error, and 400 exactly when it returned an error.
C32_StatusFollowsAddLabel ==
    [][\A w \in Writers :
          (apiPc[w] = "called" /\ apiPc'[w] = "idle") =>
              /\ httpStatus'[w] = 201 <=> (ret[w].changed /\ ~ ret[w].err)
              /\ httpStatus'[w] = 200 <=> (~ ret[w].changed /\ ~ ret[w].err)
              /\ httpStatus'[w] = 400 <=> ret[w].err]_vars

\* one handler has answered an admitted label with 201 and the other a
\* refused one with 400
C32_Witness ==
    \E w, u \in Writers :
        /\ httpStatus[w] = 201 /\ httpStatus[u] = 400
        /\ apiPc[w] = "idle" /\ apiPc[u] = "idle"
        /\ log # {}

\* C33: a conflict is invisible to the caller: the attempt that is rolled
\* back leaves no entry, and the retry decides again against the committed
\* rows: it returns changed = false when the label has become redundant, and
\* otherwise its insert goes through and commits above every committed seq.
C33_ConflictTransparent ==
    [][\A w \in Writers :
          /\ (wpc[w] = "count" /\ wpc'[w] = "begin") => log' = log
          /\ (i[w] >= 1 /\ wpc[w] = "find" /\ wpc'[w] # "find"
                 /\ NoOp(FindExisting(log, newLabel[w], lastKey[w]), newLabel[w])) =>
                 (wpc'[w] = "idle" /\ ~ ret'[w].changed /\ ~ ret'[w].err)
          /\ (i[w] >= 1 /\ wpc[w] = "create" /\ wpc'[w] # "create") => wpc'[w] = "count"
          /\ (i[w] >= 1 /\ Admits(w)) =>
                 \A e \in log' \ log : e.seq > Max(Seqs(log))]_vars

\* C34: in a log written by AddLabel calls only, every negation has an
\* older entry of its identity that is not a negation: a negation is never
\* the first entry of its identity.
C34_NegationFollowsPositive ==
    \A e \in log :
        e.neg => \E l \in log : SameIdentity(l, e) /\ ~ l.neg /\ l.seq < e.seq

\* the log holds a negation and a further call is running
C34_Witness ==
    /\ \E e \in log : e.neg
    /\ \E w \in Writers : InCall(w)

\* the new store is as an error-free migration of the old store leaves it,
\* and the next start calls the migration again
MigratesAgain ==
    /\ migRet = "none" /\ migRet' # "none"
    /\ LastKey(oldDb).ok /\ GetLabels(oldDb).ok
    /\ log = OldEntries

\* C35: the migration called again after an error-free migration of the
\* same old store, and no write since, returns without an error of its own
\* (one of a store aside) and leaves the new store as it is, whatever the
\* old store holds, a record with an empty body at its highest key included.
C35_MigrationRestartSafe ==
    [][MigratesAgain =>
          /\ migRet' # "not sure how to proceed"
          /\ migRet' = "import" => impRet' = "nil"
          /\ log' = log]_vars

\* ImportEntries returns the error of the Create of a batch
ImportFails == impPc = "run" /\ impPc' = "idle" /\ impRet' # "nil"

\* C36: when ImportEntries returns an error of a batch, the store is
\* empty: the rows of the batches written before are gone, and a later
\* ImportEntries or migration is still let in.
C36_ImportAllOrNothing ==
    [][ImportFails => log' = {}]_vars

\* the records of the bucket of the server on bbolt as entries: the seq is
\* the number of the key
BucketEntries == {FromLabel(decodeKey(k).n, Unmarshal(bucket[k])) : k \in DOMAIN bucket}

\* C37: a client hands the same AddLabel calls to the server with the
\* nested map and to the server with the log, both empty at first; when a
\* call has returned from both, the changed flags (and errors) are the
\* same, the records written are the same entries, and the entries of the
\* nested map are the collapse of the log.
C37_DesignsEquivalent ==
    \A w \in StoreWriters :
        wpc[w] = "idle" =>
            /\ oldRet = ret[w]
            /\ BucketEntries = log
            /\ oldLabels = EffectiveLabels

\* C38: encodeKey keeps the order: of two numbers from 1 to the highest
\* one, the key of the lower number is the lower key in the bytewise order
\* of the bucket.
C38_EncodeKeyKeepsOrder ==
    (keyEnc # <<>> /\ keyArg[1] < keyArg[2]) => BytesLess(keyEnc[1], keyEnc[2])

\* two numbers in order whose keys differ in length have been encoded
C38_Witness ==
    /\ keyEnc # <<>>
    /\ keyArg[1] < keyArg[2]
    /\ Len(keyEnc[1]) < Len(keyEnc[2])

\* the keys of the numbers from 1 to the highest one
EncodedKeys == {encodeKey(n) : n \in 1 .. MaxInt64}

\* C39: decodeKey gives back the number that encodeKey was given, for the
\* numbers from 1 to the highest one, and returns an error for every key
\* that is not the key of such a number: an empty one, one with a wrong
\* length byte, with no bytes after it, with a leading zero byte, or of a
\* number above the highest one.
C39_DecodeKeyInvertsEncodeKey ==
    /\ (keyEnc # <<>> /\ bytesDec # <<>> /\ bytesArg = keyEnc[1]) =>
           bytesDec[1] = [ok |-> TRUE, n |-> keyArg[1]]
    /\ (bytesDec # <<>> /\ bytesArg \notin EncodedKeys) => ~ bytesDec[1].ok

\* decodeKey has refused a key with the right length byte and no leading
\* zero: its number is above the highest one
C39_Witness ==
    /\ bytesDec # <<>> /\ ~ bytesDec[1].ok
    /\ Len(bytesArg) > 1 /\ Len(bytesArg) = bytesArg[1] + 1 /\ bytesArg[2] # 0

\* C40: a cursor parameter above the highest int64, which is ahead of every
\* seq of the log, is validated as a cursor: once the subscription is past
\* the validation, the connection carries the FutureCursor frame alone and
\* is closed; the subscription does not go on as one without a cursor.
C40_HighCursorIsFutureCursor ==
    \A s \in Subs :
        (formCursor[s] > MaxInt64 /\ Validated(s)) =>
            (frames[s] = <<FutureCursorFrame>> /\ spc[s] = "done")

====
